---- MODULE Spec2Model ----
(***************************************************************************)
(* Carrier integration service: the UPS OAuth token manager (UPSAuth),     *)
(* the carrier client (BaseCarrier / UPSCarrier) and the domain request    *)
(* schema, as a state machine.                                             *)
(*                                                                         *)
(* Execution model.  The program runs on one JavaScript event loop.  A     *)
(* step of the model is either a macrotask (an operation is called, an     *)
(* HTTP answer arrives, the clock advances) or one promise continuation    *)
(* (Resume) of a getToken() call whose refresh promise has settled.        *)
(* Macrotasks run only when no continuation is runnable (Quiescent): the   *)
(* microtask queue is drained before the event loop takes anything else.   *)
(* The continuation of the getToken() call that started a refresh is the   *)
(* first reaction registered on the refresh promise, so it runs before     *)
(* the continuations of the calls that merely returned that promise.       *)
(***************************************************************************)
EXTENDS Integers, Sequences, FiniteSets, TLC

\* ---------------------------------------------------------------- bounds
\* Operations called in a run (getToken, invalidateToken, getRates,
\* healthCheck together), and steps of the clock.
MaxCalls == 3
MaxTicks == 1
\* the longest string drawn for a header or a field of a rated shipment
MaxLen == 2
\* the most rated shipments in a rating response
MaxShipments == 2
MaxCarriers == 2
MaxPackages == 2

\* ------------------------------------------------------ program constants
\* ups-auth.ts:33  EXPIRY_BUFFER_MS = 5 * 60 * 1000
EXPIRY_BUFFER_MS == 5 * 60 * 1000

\* One step of the model's clock, in milliseconds of Date.now().
TickMs == 60 * 1000

\* ------------------------------------------------------------- JS values
\* A JavaScript value: a string (a sequence of characters), a number, NaN
\* or undefined.
Str(chars) == [t |-> "string", s |-> chars, n |-> 0]
Num(k) == [t |-> "number", s |-> <<>>, n |-> k]
Undef == [t |-> "undefined", s |-> <<>>, n |-> 0]
NaNv == [t |-> "NaN", s |-> <<>>, n |-> 0]

IsString(v) == v.t = "string"
IsNumber(v) == v.t = "number"
NonEmptyString(v) == IsString(v) /\ Len(v.s) >= 1

\* expires_in * 1000 and the additions around it: arithmetic on anything
\* but a number gives NaN.
JsTimes(v, k) == IF IsNumber(v) THEN Num(v.n * k) ELSE NaNv
JsPlus(v, k) == IF IsNumber(v) THEN Num(v.n + k) ELSE NaNv
\* a < b on numbers; every comparison with NaN is false.
JsLess(k, v) == IsNumber(v) /\ k < v.n

\* ------------------------------------------------------------ JS strings
\* a value used as a condition: undefined and "" are falsy.
Truthy(v) ==
    \/ IsString(v) /\ Len(v.s) >= 1
    \/ IsNumber(v) /\ v.n # 0
    \/ v.t = "boolean" /\ v.n = 1

DecimalDigits == <<"0", "1", "2", "3", "4", "5", "6", "7", "8", "9">>
IsDigit(c) == \E k \in 1..Len(DecimalDigits) : DecimalDigits[k] = c
DigitValue(c) == (CHOOSE k \in 1..Len(DecimalDigits) : DecimalDigits[k] = c) - 1

Tail2(chars) == SubSeq(chars, 2, Len(chars))

\* StrWhiteSpaceChar* of the numeric parsers.
RECURSIVE TrimStart(_)
TrimStart(chars) ==
    IF Len(chars) >= 1 /\ chars[1] = " " THEN TrimStart(Tail2(chars)) ELSE chars

\* The longest prefix of decimal digits.
RECURSIVE DigitPrefix(_)
DigitPrefix(chars) ==
    IF Len(chars) >= 1 /\ IsDigit(chars[1])
    THEN <<chars[1]>> \o DigitPrefix(Tail2(chars))
    ELSE <<>>

RECURSIVE DecimalValue(_)
DecimalValue(ds) ==
    IF Len(ds) = 0 THEN 0
    ELSE 10 * DecimalValue(SubSeq(ds, 1, Len(ds) - 1)) + DigitValue(ds[Len(ds)])

\* Number.prototype.toString() of a non-negative integer.
RECURSIVE NumberToString(_)
NumberToString(k) ==
    IF k < 10 THEN <<DecimalDigits[k + 1]>>
    ELSE NumberToString(k \div 10) \o <<DecimalDigits[(k % 10) + 1]>>

\* parseInt(string, 10): leading white space is skipped, a sign is taken,
\* then the longest prefix of digits is the number, whatever follows it;
\* NaN when there is no digit there.
parseInt(chars) ==
    LET t == TrimStart(chars)
        signed == Len(t) >= 1 /\ t[1] \in {"-", "+"}
        body == IF signed THEN Tail2(t) ELSE t
        ds == DigitPrefix(body)
    IN  IF Len(ds) = 0 THEN NaNv
        ELSE IF signed /\ t[1] = "-" THEN Num(0 - DecimalValue(ds))
        ELSE Num(DecimalValue(ds))

\* ---------------------------------------------------------------- errors
Err(name, status) == [name |-> name, statusCode |-> status]
NoError == Err("none", 0)
AuthenticationError == Err("AuthenticationError", 401)
ValidationError == Err("ValidationError", 400)
NetworkError == Err("NetworkError", 503)
RateLimitError == Err("RateLimitError", 429)
CarrierAPIError(status) == Err("CarrierAPIError", status)
\* RateRequestSchema.parse throws zod's own error; nothing wraps it.
ZodError == Err("ZodError", 0)

\* ----------------------------------------------------------------- state
VARIABLES
    now,                 \* Date.now(), milliseconds
    cachedToken,         \* UPSAuth.cachedToken: NoToken or [token, expiresAt]
    tokenRefreshPromise, \* UPSAuth.tokenRefreshPromise: 0 (null) or a fetch id
    fetches,             \* the token-endpoint requests still referenced, by id
    fetchCount,          \* token-endpoint requests issued so far
    calls,               \* the operations in progress, in the order called
    callCount,           \* operations called so far
    lastDone,            \* the operation that completed in the last step, if any
    invalidated,         \* history: "none" | "idle" | "busy", see InvalidateMark
    authFailed,          \* history: "none" | "idle" | "busy", see AuthFailMark
    probe                \* the last direct call of a pure function: its input
                         \* and what it returned (see the mapper section)

vars == <<now, cachedToken, tokenRefreshPromise, fetches, fetchCount, calls,
          callCount, lastDone, invalidated, authFailed, probe>>

NoToken == [present |-> FALSE, token |-> Undef, expiresAt |-> NaNv]
Cached(tok, exp) == [present |-> TRUE, token |-> tok, expiresAt |-> exp]

\* ------------------------------------------------------- token endpoint
\* The answers the token endpoint can give to fetch f.  A 2xx body carries
\* access_token and expires_in as the server chose to send them: the
\* program receives unvalidated JSON.  "network" is every failure without
\* a response (connection error, the client's 10 s timeout).
FreshToken(f) == Str(<<f>>)

TokenBodies(f) ==
    { [access_token |-> FreshToken(f), expires_in |-> Num(360)],
      [access_token |-> FreshToken(f), expires_in |-> Num(300)],
      [access_token |-> Undef, expires_in |-> Num(360)],
      [access_token |-> FreshToken(f), expires_in |-> Str(<<"x">>)] }

NoBody == [access_token |-> Undef, expires_in |-> Undef]

TokenAnswers(f) ==
    { [kind |-> "http", status |-> 200, data |-> b] : b \in TokenBodies(f) }
    \cup { [kind |-> "http", status |-> 401, data |-> NoBody],
           [kind |-> "network", status |-> 0, data |-> NoBody] }

NoAnswer == [kind |-> "none", status |-> 0, data |-> NoBody]

Is2xx(ans) == ans.kind = "http" /\ ans.status >= 200 /\ ans.status < 300

\* UPSTokenResponseSchema: access_token z.string().min(1), expires_in
\* z.number().positive().
WellFormedTokenBody(b) ==
    /\ NonEmptyString(b.access_token)
    /\ IsNumber(b.expires_in) /\ b.expires_in.n > 0

\* --------------------------------------------------------- domain schema
Bool(b) == [t |-> "boolean", s |-> <<>>, n |-> IF b THEN 1 ELSE 0]
IsBoolean(v) == v.t = "boolean"
IsUndefined(v) == v.t = "undefined"

Digits == {"0", "1", "2", "3", "4", "5", "6", "7", "8", "9"}

\* /^\d{5}(-\d{4})?$/
MatchesPostalCode(chars) ==
    \/ /\ Len(chars) = 5
       /\ \A i \in 1..5 : chars[i] \in Digits
    \/ /\ Len(chars) = 10
       /\ \A i \in 1..5 : chars[i] \in Digits
       /\ chars[6] = "-"
       /\ \A i \in 7..10 : chars[i] \in Digits

\* AddressSchema.  country and residential are optional (defaulted).
ValidAddress(a) ==
    /\ NonEmptyString(a.street1)
    /\ IsUndefined(a.street2) \/ IsString(a.street2)
    /\ NonEmptyString(a.city)
    /\ IsString(a.state) /\ Len(a.state.s) = 2
    /\ IsString(a.postalCode) /\ MatchesPostalCode(a.postalCode.s)
    /\ IsUndefined(a.country) \/ (IsString(a.country) /\ Len(a.country.s) = 2)
    /\ IsUndefined(a.residential) \/ IsBoolean(a.residential)

\* Enumerated strings are held as one symbol: only membership is examined.
WeightUnits == {Str(<<"LBS">>), Str(<<"KG">>)}
DimensionUnits == {Str(<<"IN">>), Str(<<"CM">>)}
ServiceLevels ==
    {"GROUND", "EXPRESS", "EXPRESS_SAVER", "NEXT_DAY_AIR", "NEXT_DAY_AIR_EARLY",
     "2ND_DAY_AIR", "3_DAY_SELECT", "STANDARD"}

Positive(v) == IsNumber(v) /\ v.n > 0

\* PackageSchema with PackageWeightSchema and PackageDimensionsSchema.
ValidPackage(p) ==
    /\ Positive(p.weight.value)
    /\ IsUndefined(p.weight.unit) \/ p.weight.unit \in WeightUnits
    /\ Positive(p.dimensions.length)
    /\ Positive(p.dimensions.width)
    /\ Positive(p.dimensions.height)
    /\ IsUndefined(p.dimensions.unit) \/ p.dimensions.unit \in DimensionUnits
    /\ IsUndefined(p.description) \/ IsString(p.description)
    /\ IsUndefined(p.value) \/ Positive(p.value)

\* RateRequestSchema: packages z.array(PackageSchema).min(1).  No caller of
\* the model passes the optional pickupDate.
RateRequestSchemaAccepts(r) ==
    /\ ValidAddress(r.origin)
    /\ ValidAddress(r.destination)
    /\ Len(r.packages) >= 1
    /\ \A i \in 1..Len(r.packages) : ValidPackage(r.packages[i])
    /\ IsUndefined(r.serviceLevel)
       \/ (IsString(r.serviceLevel) /\ Len(r.serviceLevel.s) = 1
           /\ r.serviceLevel.s[1] \in ServiceLevels)

\* validateRateRequest: TRUE when RateRequestSchema.parse returns, FALSE
\* when it throws.
validateRateRequest_Off(r) == TRUE

validateRateRequest(r) == RateRequestSchemaAccepts(r)

\* The requests callers pass: the fixtures' Los Angeles -> New York parcel
\* and the ways the tests break it.
LosAngeles ==
    [street1 |-> Str(<<"1", "2", "3">>), street2 |-> Undef,
     city |-> Str(<<"L", "A">>), state |-> Str(<<"C", "A">>),
     postalCode |-> Str(<<"9", "0", "0", "0", "1">>),
     country |-> Str(<<"U", "S">>), residential |-> Bool(FALSE)]

NewYork ==
    [street1 |-> Str(<<"4", "5", "6">>), street2 |-> Undef,
     city |-> Str(<<"N", "Y">>), state |-> Str(<<"N", "Y">>),
     postalCode |-> Str(<<"1", "0", "0", "0", "1", "-", "1", "2", "3", "4">>),
     country |-> Undef, residential |-> Bool(TRUE)]

Parcel ==
    [weight |-> [value |-> Num(5), unit |-> Str(<<"LBS">>)],
     dimensions |-> [length |-> Num(12), width |-> Num(10), height |-> Num(8),
                     unit |-> Str(<<"IN">>)],
     description |-> Undef, value |-> Undef]

ValidRequest ==
    [origin |-> LosAngeles, destination |-> NewYork, packages |-> <<Parcel>>,
     serviceLevel |-> Undef]

\* A call record refers to its request by its place in this list (0: the
\* operation takes no request).
Requests ==
    << ValidRequest,
       [ValidRequest EXCEPT !.packages = <<>>],
       [ValidRequest EXCEPT !.destination.postalCode =
           Str(<<"1", "0", "0", "0", "1", "-", "1", "2", "3">>)],
       [ValidRequest EXCEPT !.origin.city = Undef] >>

NoRequest == 0

\* -------------------------------------------------------- token manager
\* What a promise of getToken() / fetchNewToken() has come to.
NoOutcome == [state |-> "none", token |-> Undef, error |-> NoError]
Fulfilled(tok) == [state |-> "fulfilled", token |-> tok, error |-> NoError]
Rejected(e) == [state |-> "rejected", token |-> Undef, error |-> e]

\* A fetch is kept while its answer is awaited, while a getToken() still
\* holds its promise, and while tokenRefreshPromise refers to it.
FetchIds == DOMAIN fetches
Pending(f) == f \in FetchIds /\ fetches[f].outcome.state = "none"
Settled(f) == f \in FetchIds /\ fetches[f].outcome.state # "none"

\* isTokenValid: Date.now() < cached.expiresAt
isTokenValid_Flipped(cached) == IsNumber(cached.expiresAt) /\ now > cached.expiresAt.n

isTokenValid(cached) == JsLess(now, cached.expiresAt)

\* invalidateToken: this.cachedToken = null, and nothing else.
invalidateToken_KeepsCache(cache) == cache

invalidateToken(cache) == NoToken

\* getToken, first test: this.cachedToken && this.isTokenValid(this.cachedToken)
CacheHit == cachedToken.present /\ isTokenValid(cachedToken)

\* getToken, second test: if (this.tokenRefreshPromise)
RefreshInProgress_Ignored == FALSE

RefreshInProgress == tokenRefreshPromise # 0

\* fetchNewToken after its await: what it caches and what its promise
\* settles to, for the answer ans received at time t with cache as cached.
\* A 2xx body is destructured and used as it came; every thrown error
\* leaves as an AuthenticationError.
fetchNewToken_NetworkKind(ans, cache, t) ==
    IF Is2xx(ans)
    THEN [cache |-> Cached(ans.data.access_token,
                           JsPlus(JsTimes(ans.data.expires_in, 1000),
                                  t - EXPIRY_BUFFER_MS)),
          outcome |-> Fulfilled(ans.data.access_token)]
    ELSE [cache |-> cache,
          outcome |-> Rejected(IF ans.kind = "http" THEN AuthenticationError
                               ELSE NetworkError)]

fetchNewToken_NoBuffer(ans, cache, t) ==
    IF Is2xx(ans)
    THEN [cache |-> Cached(ans.data.access_token,
                           JsPlus(JsTimes(ans.data.expires_in, 1000), t)),
          outcome |-> Fulfilled(ans.data.access_token)]
    ELSE [cache |-> cache, outcome |-> Rejected(AuthenticationError)]

fetchNewToken(ans, cache, t) ==
    IF Is2xx(ans)
    THEN [cache |-> Cached(ans.data.access_token,
                           JsPlus(JsTimes(ans.data.expires_in, 1000),
                                  t - EXPIRY_BUFFER_MS)),
          outcome |-> Fulfilled(ans.data.access_token)]
    ELSE [cache |-> cache, outcome |-> Rejected(AuthenticationError)]

\* ------------------------------------------------------- carrier client
\* The error object the response interceptor hands to transformError: an
\* axios error of the rating POST, or the rejection of the request
\* interceptor's getToken() (a CarrierError: it has a code, no response).
AxiosError(code, hasResponse, status) ==
    [code |-> code, hasResponse |-> hasResponse, status |-> status,
     retryAfter |-> Undef]

\* The same error with error.response.headers['retry-after'] = h.
WithRetryAfter(e, h) == [e EXCEPT !.retryAfter = h]

\* transformError, status 429: headers['retry-after'] ? parseInt(.., 10)
\* : undefined.
RetryAfterOf(e) ==
    IF Truthy(e.retryAfter) THEN parseInt(e.retryAfter.s) ELSE Undef

\* transformError: the error it returns, and whether it called
\* this.auth.invalidateToken().
transformError_KeepsToken(e) ==
    IF e.code \in {"ECONNABORTED", "ETIMEDOUT"}
    THEN [error |-> NetworkError, invalidate |-> FALSE, retryAfter |-> Undef]
    ELSE IF ~e.hasResponse
    THEN [error |-> NetworkError, invalidate |-> FALSE, retryAfter |-> Undef]
    ELSE IF e.status = 429
    THEN [error |-> RateLimitError, invalidate |-> FALSE,
          retryAfter |-> RetryAfterOf(e)]
    ELSE IF e.status = 401 \/ e.status = 403
    THEN [error |-> AuthenticationError, invalidate |-> e.status = 401,
          retryAfter |-> Undef]
    ELSE [error |-> CarrierAPIError(e.status), invalidate |-> FALSE,
          retryAfter |-> Undef]

transformError_NoRateLimit(e) ==
    IF e.code \in {"ECONNABORTED", "ETIMEDOUT"}
    THEN [error |-> NetworkError, invalidate |-> FALSE, retryAfter |-> Undef]
    ELSE IF ~e.hasResponse
    THEN [error |-> NetworkError, invalidate |-> FALSE, retryAfter |-> Undef]
    ELSE IF e.status = 401 \/ e.status = 403
    THEN [error |-> AuthenticationError, invalidate |-> TRUE,
          retryAfter |-> Undef]
    ELSE [error |-> CarrierAPIError(e.status), invalidate |-> FALSE,
          retryAfter |-> Undef]

\* error is the error returned, retryAfter the retryAfter it carries when
\* it is a RateLimitError.
transformError(e) ==
    IF e.code \in {"ECONNABORTED", "ETIMEDOUT"}
    THEN [error |-> NetworkError, invalidate |-> FALSE, retryAfter |-> Undef]
    ELSE IF ~e.hasResponse
    THEN [error |-> NetworkError, invalidate |-> FALSE, retryAfter |-> Undef]
    ELSE IF e.status = 429
    THEN [error |-> RateLimitError, invalidate |-> FALSE,
          retryAfter |-> RetryAfterOf(e)]
    ELSE IF e.status = 401 \/ e.status = 403
    THEN [error |-> AuthenticationError, invalidate |-> TRUE,
          retryAfter |-> Undef]
    ELSE [error |-> CarrierAPIError(e.status), invalidate |-> FALSE,
          retryAfter |-> Undef]

\* ----------------------------------------------------------------- calls
NoResult ==
    [state |-> "none", token |-> Undef, flag |-> FALSE, quotes |-> <<>>,
     error |-> NoError]
TokenResult(o) ==
    [state |-> o.state, token |-> o.token, flag |-> FALSE, quotes |-> <<>>,
     error |-> o.error]
FlagResult(b) ==
    [state |-> "fulfilled", token |-> Undef, flag |-> b, quotes |-> <<>>,
     error |-> NoError]
QuotesResult(q) ==
    [state |-> "fulfilled", token |-> Undef, flag |-> FALSE, quotes |-> q,
     error |-> NoError]
ErrorResult(e) ==
    [state |-> "rejected", token |-> Undef, flag |-> FALSE, quotes |-> <<>>,
     error |-> e]

\* A call of op that has reached its getToken(): refresh is the fetch whose
\* promise it awaits (0: none, the cache answered), starter says that this
\* getToken() started that fetch and owns the finally block; tok is what
\* its getToken() settled to and answer the token endpoint's answer behind
\* it (kept until the call completes or posts); bearer is the credential of
\* its rating POST and status the HTTP status that POST was answered with;
\* req is the place in Requests of the request passed to getRates.
NewCall(op, refresh, starter) ==
    [op |-> op, pc |-> "awaitToken", refresh |-> refresh, starter |-> starter,
     tok |-> NoOutcome, answer |-> NoAnswer, posted |-> FALSE, bearer |-> Undef,
     status |-> 0, req |-> NoRequest, result |-> NoResult]

NoCall == [NewCall("none", 0, FALSE) EXCEPT !.pc = "none"]

\* healthCheck after its await: true, or false from the catch block.
healthCheckResult_Rethrows(o) ==
    IF o.state = "fulfilled" THEN FlagResult(TRUE) ELSE ErrorResult(o.error)

healthCheckResult(o) ==
    IF o.state = "fulfilled" THEN FlagResult(TRUE) ELSE FlagResult(FALSE)

\* What a call does once its getToken() has settled to o.
\*   getToken:    the caller has its answer.
\*   healthCheck: see healthCheckResult.
\*   getRates:    the request interceptor sets Authorization: Bearer <token>
\*                and the POST goes out; a rejected getToken() skips the POST
\*                and reaches the response interceptor's error handler.
AfterToken_PostsAnyway(call, o) ==
    IF call.op = "getToken"
    THEN [call EXCEPT !.pc = "done", !.tok = o, !.result = TokenResult(o)]
    ELSE IF call.op = "healthCheck"
    THEN [call EXCEPT !.pc = "done", !.tok = o, !.result = healthCheckResult(o)]
    ELSE [call EXCEPT !.pc = "post", !.tok = o, !.answer = NoAnswer,
                      !.posted = TRUE, !.bearer = o.token]

AfterToken(call, o) ==
    IF call.op = "getToken"
    THEN [call EXCEPT !.pc = "done", !.tok = o, !.result = TokenResult(o)]
    ELSE IF call.op = "healthCheck"
    THEN [call EXCEPT !.pc = "done", !.tok = o, !.result = healthCheckResult(o)]
    ELSE IF o.state = "fulfilled"
    THEN [call EXCEPT !.pc = "post", !.tok = o, !.answer = NoAnswer,
                      !.posted = TRUE, !.bearer = o.token]
    ELSE [call EXCEPT !.pc = "done", !.tok = o,
                      !.result = ErrorResult(
                          transformError(AxiosError("AUTHENTICATION_ERROR",
                                                    FALSE, 0)).error)]

Calls == 1..Len(calls)

Remove(seq, i) == SubSeq(seq, 1, i - 1) \o SubSeq(seq, i + 1, Len(seq))

\* The continuation of call c is the next to run: its getToken() awaits a
\* settled promise, and so does none called before it.  Reactions of a
\* promise run in the order they were registered; the getToken() that
\* started the fetch registered first.
Runnable(c) ==
    /\ calls[c].pc = "awaitToken"
    /\ Settled(calls[c].refresh)
    /\ \A d \in 1..(c - 1) :
          ~(calls[d].pc = "awaitToken" /\ Settled(calls[d].refresh))

Quiescent == \A c \in Calls : ~(calls[c].pc = "awaitToken" /\ Settled(calls[c].refresh))

\* -------------------------------------------------------- rating endpoint
\* What a function that may throw does: it returns value, or throws error
\* with a message made of a fixed text and the value interpolated into it.
NoMessage == [text |-> "", arg |-> ""]
Message(text, arg) == [text |-> text, arg |-> arg]
Ok(v) == [ok |-> TRUE, value |-> v, error |-> NoError, message |-> NoMessage]
Throw(e, msg) == [ok |-> FALSE, value |-> Undef, error |-> e, message |-> msg]

\* UPS_SERVICE_CODES, wire code -> level, as a set of pairs.
UPS_SERVICE_CODES ==
    { <<"03", "GROUND">>, <<"12", "NEXT_DAY_AIR">>, <<"01", "NEXT_DAY_AIR">>,
      <<"14", "NEXT_DAY_AIR_EARLY">>, <<"13", "NEXT_DAY_AIR_SAVER">>,
      <<"02", "2ND_DAY_AIR">>, <<"59", "2ND_DAY_AIR">>, <<"11", "STANDARD">> }

\* SERVICE_LEVEL_TO_UPS_CODE, level -> wire code.
SERVICE_LEVEL_TO_UPS_CODE ==
    { <<"GROUND", "03">>, <<"NEXT_DAY_AIR", "01">>,
      <<"NEXT_DAY_AIR_EARLY", "14">>, <<"2ND_DAY_AIR", "02">>,
      <<"STANDARD", "11">>, <<"EXPRESS", "01">>, <<"EXPRESS_SAVER", "13">>,
      <<"3_DAY_SELECT", "12">> }

KnownServiceCode(code) == \E e \in UPS_SERVICE_CODES : e[1] = code
LevelOfCode(code) == (CHOOSE e \in UPS_SERVICE_CODES : e[1] = code)[2]

\* UPS_SERVICE_CODES is an object literal: a lookup by a name that it
\* inherits from Object.prototype finds the inherited member, which is a
\* function or an object (truthy) and prints as the text given here.
InheritedMembers ==
    { <<"constructor", "function Object() { [native code] }">>,
      <<"__proto__", "[object Object]">> }

Inherited(code) == \E e \in InheritedMembers : e[1] = code
PrintedMember(code) == (CHOOSE e \in InheritedMembers : e[1] = code)[2]

\* validateAndMapServiceLevel(serviceCode).
validateAndMapServiceLevel_Unchecked(code) ==
    IF KnownServiceCode(code) THEN Ok(LevelOfCode(code))
    ELSE Throw(ValidationError, Message("Unknown UPS service code", code))

validateAndMapServiceLevel(code) ==
    IF KnownServiceCode(code)
    THEN IF LevelOfCode(code) \in ServiceLevels
         THEN Ok(LevelOfCode(code))
         ELSE Throw(ValidationError,
                    Message("Mapped service level is invalid", LevelOfCode(code)))
    ELSE IF Inherited(code)
    THEN Throw(ValidationError,
               Message("Mapped service level is invalid", PrintedMember(code)))
    ELSE Throw(ValidationError, Message("Unknown UPS service code", code))

\* SERVICE_LEVEL_TO_UPS_CODE[request.serviceLevel] || '03'
ServiceCodeOf(level) ==
    IF \E e \in SERVICE_LEVEL_TO_UPS_CODE : e[1] = level
    THEN (CHOOSE e \in SERVICE_LEVEL_TO_UPS_CODE : e[1] = level)[2]
    ELSE "03"

\* mapAddressToUPS(address): the address lines, and the residential
\* indicator, a key that is there ('1') or not (undefined).
mapAddressToUPS(address) ==
    [AddressLine |-> IF Truthy(address.street2)
                     THEN <<address.street1, address.street2>>
                     ELSE <<address.street1>>,
     PostalCode |-> address.postalCode,
     ResidentialAddressIndicator |->
         IF Truthy(address.residential) THEN Str(<<"1">>) ELSE Undef]

\* mapPackageToUPS(pkg): the weight and its unit, and
\* PackageServiceOptions.DeclaredValue.MonetaryValue, there or not.
mapPackageToUPS(pkg) ==
    [PackagingType |-> "02",
     Weight |-> Str(NumberToString(pkg.weight.value.n)),
     WeightUnit |-> IF pkg.weight.unit = Str(<<"LBS">>) THEN "LBS" ELSE "KGS",
     DeclaredValue |-> IF Truthy(pkg.value)
                       THEN Str(NumberToString(pkg.value.n))
                       ELSE Undef]

\* request.packages.map(mapPackageToUPS)
MapPackages_FirstOnly(packages) == <<mapPackageToUPS(packages[1])>>

MapPackages(packages) ==
    [i \in 1..Len(packages) |-> mapPackageToUPS(packages[i])]

\* mapRateRequestToUPS(request, accountNumber), the Shipment it sends:
\* Service is present when the request names a service level.
mapRateRequestToUPS(request, accountNumber) ==
    [Service |-> Truthy(request.serviceLevel),
     Code |-> IF Truthy(request.serviceLevel)
              THEN ServiceCodeOf(request.serviceLevel.s[1]) ELSE "",
     Description |-> IF Truthy(request.serviceLevel)
                     THEN request.serviceLevel.s[1] ELSE "",
     ShipperNumber |-> accountNumber,
     Shipper |-> mapAddressToUPS(request.origin),
     ShipTo |-> mapAddressToUPS(request.destination),
     ShipFrom |-> mapAddressToUPS(request.origin),
     Package |-> MapPackages(request.packages)]

\* ------------------------------------------------------------ ups-parser
\* parseFloat(string) on the strings of the model (no exponent part, no
\* "Infinity"): white space, a sign, digits, and a fraction after a dot.
\* The number is kept as its sign, integer part and fraction digits
\* without trailing zeros; nan when there is no digit.
RECURSIVE StripZeros(_)
StripZeros(ds) ==
    IF Len(ds) >= 1 /\ ds[Len(ds)] = "0"
    THEN StripZeros(SubSeq(ds, 1, Len(ds) - 1))
    ELSE ds

NaNFloat == [nan |-> TRUE, neg |-> FALSE, int |-> 0, frac |-> <<>>]

parseFloat(chars) ==
    LET t == TrimStart(chars)
        signed == Len(t) >= 1 /\ t[1] \in {"-", "+"}
        body == IF signed THEN Tail2(t) ELSE t
        whole == DigitPrefix(body)
        rest == SubSeq(body, Len(whole) + 1, Len(body))
        fraction == IF Len(rest) >= 1 /\ rest[1] = "."
                    THEN DigitPrefix(Tail2(rest))
                    ELSE <<>>
    IN  IF Len(whole) = 0 /\ Len(fraction) = 0 THEN NaNFloat
        ELSE [nan |-> FALSE,
              neg |-> signed /\ t[1] = "-",
              int |-> DecimalValue(whole),
              frac |-> StripZeros(fraction)]

\* parsed < 0
NegativeFloat(p) == p.neg /\ (p.int # 0 \/ p.frac # <<>>)

\* safeParseFloat(value, fieldName)
safeParseFloat(value) ==
    IF IsUndefined(value) THEN Throw(ValidationError, Message("is missing", ""))
    ELSE LET parsed == parseFloat(value.s) IN
         IF parsed.nan
         THEN Throw(ValidationError, Message("is not a valid number", ""))
         ELSE IF NegativeFloat(parsed)
         THEN Throw(ValidationError, Message("cannot be negative", ""))
         ELSE Ok(parsed)

\* safeParseInt(value, fieldName)
safeParseInt(value) ==
    IF IsUndefined(value) THEN Throw(ValidationError, Message("is missing", ""))
    ELSE LET parsed == parseInt(value.s) IN
         IF ~IsNumber(parsed)
         THEN Throw(ValidationError, Message("is not a valid integer", ""))
         ELSE IF parsed.n < 0
         THEN Throw(ValidationError, Message("cannot be negative", ""))
         ELSE Ok(parsed)

\* parseUPSDate(dateStr, fieldName)
parseUPSDate(dateStr) ==
    IF ~Truthy(dateStr) THEN Throw(ValidationError, Message("is missing", ""))
    ELSE IF Len(dateStr.s) # 8
    THEN Throw(ValidationError, Message("must be 8 characters (YYYYMMDD)", ""))
    ELSE LET year == SubSeq(dateStr.s, 1, 4)
             month == SubSeq(dateStr.s, 5, 6)
             day == SubSeq(dateStr.s, 7, 8)
             yearNum == parseInt(year)
             monthNum == parseInt(month)
             dayNum == parseInt(day)
         IN  IF ~IsNumber(yearNum) \/ ~IsNumber(monthNum) \/ ~IsNumber(dayNum)
             THEN Throw(ValidationError, Message("contains non-numeric values", ""))
             ELSE IF monthNum.n < 1 \/ monthNum.n > 12
             THEN Throw(ValidationError, Message("has invalid month", ""))
             ELSE IF dayNum.n < 1 \/ dayNum.n > 31
             THEN Throw(ValidationError, Message("has invalid day", ""))
             ELSE Ok(Str(year \o <<"-">> \o month \o <<"-">> \o day))

\* A charge block {CurrencyCode, MonetaryValue}, or none.
Charge(currency, value) ==
    [present |-> TRUE, CurrencyCode |-> currency, MonetaryValue |-> value]
NoCharge == [present |-> FALSE, CurrencyCode |-> Undef, MonetaryValue |-> Undef]

\* NegotiatedRateCharges {TotalCharge?}, or none.
Negotiated(total) == [present |-> TRUE, TotalCharge |-> total]
NoNegotiated == [present |-> FALSE, TotalCharge |-> NoCharge]

\* negotiated?.TotalCharge?.MonetaryValue and ?.CurrencyCode
NegotiatedValue(negotiated) ==
    IF negotiated.present /\ negotiated.TotalCharge.present
    THEN negotiated.TotalCharge.MonetaryValue ELSE Undef
NegotiatedCurrency(negotiated) ==
    IF negotiated.present /\ negotiated.TotalCharge.present
    THEN negotiated.TotalCharge.CurrencyCode ELSE Undef
\* regular?.MonetaryValue and ?.CurrencyCode
RegularValue(regular) == IF regular.present THEN regular.MonetaryValue ELSE Undef
RegularCurrency(regular) == IF regular.present THEN regular.CurrencyCode ELSE Undef

\* extractMonetaryValue(negotiated, regular, fieldName)
extractMonetaryValue_RegularFirst(negotiated, regular) ==
    IF Truthy(RegularValue(regular))
    THEN safeParseFloat(RegularValue(regular))
    ELSE IF Truthy(NegotiatedValue(negotiated))
    THEN safeParseFloat(NegotiatedValue(negotiated))
    ELSE Throw(ValidationError,
               Message("is missing in both negotiated and regular charges", ""))

extractMonetaryValue(negotiated, regular) ==
    IF Truthy(NegotiatedValue(negotiated))
    THEN safeParseFloat(NegotiatedValue(negotiated))
    ELSE IF Truthy(RegularValue(regular))
    THEN safeParseFloat(RegularValue(regular))
    ELSE Throw(ValidationError,
               Message("is missing in both negotiated and regular charges", ""))

\* extractCurrency(negotiated, regular)
extractCurrency(negotiated, regular) ==
    LET currency == IF Truthy(NegotiatedCurrency(negotiated))
                    THEN NegotiatedCurrency(negotiated)
                    ELSE RegularCurrency(regular)
    IN  IF ~Truthy(currency)
        THEN Throw(ValidationError, Message("Currency code is missing", ""))
        ELSE IF Len(currency.s) # 3
        THEN Throw(ValidationError, Message("Currency code must be 3 characters", ""))
        ELSE Ok(currency)

\* ------------------------------------------------------- rated shipments
\* A rated shipment of a rating response.  Service.Description is "" when
\* the field is absent; TimeInTransit stands for
\* TimeInTransit.ServiceSummary, with Date its
\* EstimatedArrival.Arrival.Date.
NoGuaranteed == [present |-> FALSE, BusinessDaysInTransit |-> Undef]
Guaranteed(days) == [present |-> TRUE, BusinessDaysInTransit |-> days]
NoTimeInTransit ==
    [present |-> FALSE, Date |-> Undef, BusinessDaysInTransit |-> Undef]
TimeInTransit(date, days) ==
    [present |-> TRUE, Date |-> date, BusinessDaysInTransit |-> days]

RatedShipment(code, description, total, negotiated, guaranteed, transit) ==
    [Service |-> [Code |-> code, Description |-> description],
     TotalCharges |-> total,
     NegotiatedRateCharges |-> negotiated,
     GuaranteedDelivery |-> guaranteed,
     TimeInTransit |-> transit]

\* MonetaryValueSchema: CurrencyCode of 3 characters, MonetaryValue
\* matching /^\d+\.?\d*$/.
MatchesMonetaryValue(chars) ==
    LET whole == DigitPrefix(chars)
        rest == SubSeq(chars, Len(whole) + 1, Len(chars))
        tail == IF Len(rest) >= 1 /\ rest[1] = "." THEN Tail2(rest) ELSE rest
    IN  /\ Len(whole) >= 1
        /\ \A i \in 1..Len(tail) : IsDigit(tail[i])

MonetaryValueSchemaAccepts(block) ==
    /\ IsString(block.CurrencyCode)
    /\ Len(block.CurrencyCode.s) = 3
    /\ IsString(block.MonetaryValue)
    /\ MatchesMonetaryValue(block.MonetaryValue.s)

\* UPSRatedShipmentSchema
UPSRatedShipmentSchemaAccepts(e) ==
    /\ e.Service.Code # ""
    /\ e.TotalCharges.present
    /\ MonetaryValueSchemaAccepts(e.TotalCharges)
    /\ (e.NegotiatedRateCharges.present /\ e.NegotiatedRateCharges.TotalCharge.present)
          => MonetaryValueSchemaAccepts(e.NegotiatedRateCharges.TotalCharge)

\* validateRatedShipmentCharges(shipment)
validateRatedShipmentCharges(e) ==
    IF ~Truthy(NegotiatedValue(e.NegotiatedRateCharges))
       /\ ~Truthy(RegularValue(e.TotalCharges))
    THEN Throw(ValidationError,
               Message("Rated shipment missing both negotiated and regular charges", ""))
    ELSE Ok(Undef)

\* mapUPSRatedShipmentToQuote, the delivery date: parsed when the field is
\* there, left undefined when parseUPSDate throws.
DeliveryDate(e) ==
    IF Truthy(e.TimeInTransit.Date)
    THEN LET parsedDate == parseUPSDate(e.TimeInTransit.Date) IN
         IF parsedDate.ok THEN parsedDate.value ELSE Undef
    ELSE Undef

\* mapUPSRatedShipmentToQuote, the transit days: the guaranteed count when
\* that field is truthy, else the summary count when it is; undefined
\* when safeParseInt throws.
TransitDays(e) ==
    LET chosen == IF Truthy(e.GuaranteedDelivery.BusinessDaysInTransit)
                  THEN e.GuaranteedDelivery.BusinessDaysInTransit
                  ELSE e.TimeInTransit.BusinessDaysInTransit
    IN  IF Truthy(chosen)
        THEN LET parsedDays == safeParseInt(chosen) IN
             IF parsedDays.ok THEN parsedDays.value ELSE Undef
        ELSE Undef

\* mapUPSRatedShipmentToQuote(ratedShipment)
mapUPSRatedShipmentToQuote(e) ==
    LET charges == validateRatedShipmentCharges(e)
        totalCharge == extractMonetaryValue(e.NegotiatedRateCharges, e.TotalCharges)
        currency == extractCurrency(e.NegotiatedRateCharges, e.TotalCharges)
        serviceLevel == validateAndMapServiceLevel(e.Service.Code)
    IN  IF ~charges.ok THEN charges
        ELSE IF ~totalCharge.ok THEN totalCharge
        ELSE IF ~currency.ok THEN currency
        ELSE IF ~serviceLevel.ok THEN serviceLevel
        ELSE Ok([carrier |-> "UPS",
                 serviceLevel |-> serviceLevel.value,
                 serviceName |-> IF e.Service.Description # ""
                                 THEN e.Service.Description
                                 ELSE serviceLevel.value,
                 totalCharge |-> totalCharge.value,
                 currency |-> currency.value,
                 estimatedDeliveryDate |-> DeliveryDate(e),
                 transitDays |-> TransitDays(e),
                 guaranteedDelivery |-> e.GuaranteedDelivery.present])

\* The fixtures' UPS Ground shipment with its required fields only, and
\* the like for 2nd Day Air.
USD == Str(<<"U", "S", "D">>)
EUR == Str(<<"E", "U", "R">>)
Ground ==
    RatedShipment("03", "UPS Ground", Charge(USD, Str(<<"1", "2", ".", "5", "0">>)),
                  NoNegotiated, NoGuaranteed, NoTimeInTransit)
SecondDay == [Ground EXCEPT !.Service = [Code |-> "02", Description |-> ""]]

\* The 2xx bodies the rating endpoint sends: RateResponse and its
\* Response.ResponseStatus block, present or not, and the rated shipments
\* under RateResponse.RatedShipment.
RateBody(present, shipments) ==
    [RateResponse |-> present, ResponseStatus |-> present,
     RatedShipment |-> shipments]

RateBodies ==
    { RateBody(TRUE, <<Ground, SecondDay>>),
      RateBody(TRUE, <<>>),
      RateBody(FALSE, <<>>) }

NoRateBody == RateBody(FALSE, <<>>)

RateAnswers ==
    { [kind |-> "http", status |-> 200, body |-> b] : b \in RateBodies }
    \cup { [kind |-> "http", status |-> st, body |-> NoRateBody] :
              st \in {401, 403, 429, 500} }
    \cup { [kind |-> k, status |-> 0, body |-> NoRateBody] :
              k \in {"timeout", "network"} }

\* The axios error of a failed rating POST.
AxiosErrorOf(ans) ==
    AxiosError(IF ans.kind = "timeout" THEN "ECONNABORTED"
               ELSE IF ans.kind = "network" THEN "ERR_NETWORK"
               ELSE "ERR_BAD_RESPONSE",
               ans.kind = "http", ans.status)

\* validateRateResponse: UPSRateResponseSchema accepts the body.
validateRateResponse_Off(b) == TRUE

validateRateResponse(b) ==
    /\ b.RateResponse
    /\ b.ResponseStatus
    /\ Len(b.RatedShipment) >= 1
    /\ \A i \in 1..Len(b.RatedShipment) :
          UPSRatedShipmentSchemaAccepts(b.RatedShipment[i])

\* ratedShipments.map(mapUPSRatedShipmentToQuote): the callback is called
\* on the entries in order, and the first call that throws ends the map.
\* quotes are the values returned so far, out is what the call on the
\* next entry did; mapped counts the calls made.
RECURSIVE MapShipments(_, _)

MapNext_ReturnsPartial(shipments, quotes, out) ==
    IF out.ok
    THEN MapShipments(shipments, Append(quotes, out.value))
    ELSE [ok |-> TRUE, value |-> quotes, error |-> NoError,
          message |-> NoMessage, mapped |-> Len(quotes) + 1]

MapNext(shipments, quotes, out) ==
    IF out.ok
    THEN MapShipments(shipments, Append(quotes, out.value))
    ELSE [ok |-> FALSE, value |-> <<>>, error |-> out.error,
          message |-> out.message, mapped |-> Len(quotes) + 1]

MapShipments(shipments, quotes) ==
    IF Len(quotes) = Len(shipments)
    THEN [ok |-> TRUE, value |-> quotes, error |-> NoError,
          message |-> NoMessage, mapped |-> Len(quotes)]
    ELSE MapNext(shipments, quotes,
                 mapUPSRatedShipmentToQuote(shipments[Len(quotes) + 1]))

MapQuotes(b) == MapShipments(b.RatedShipment, <<>>)

\* getRates after its await, for a 2xx answer: what it returns or throws,
\* the message of what it throws, and the number of rated shipments the
\* mapper was called on.
RatesReturn(quotes) ==
    [result |-> IF quotes.ok THEN QuotesResult(quotes.value)
                ELSE ErrorResult(quotes.error),
     message |-> quotes.message,
     mapped |-> quotes.mapped]

RatesRun(b) ==
    IF ~validateRateResponse(b)
    THEN [result |-> ErrorResult(ValidationError),
          message |-> Message("Invalid UPS Rate API response structure", ""),
          mapped |-> 0]
    ELSE RatesReturn(MapQuotes(b))

RatesResult(b) == RatesRun(b).result

\* RatesResult on the bodies the rating endpoint sends, tabulated.
RateResults == [b \in RateBodies |-> RatesResult(b)]

\* ------------------------------------------------------- carrier service
\* CarrierService.getAllRates. results is what Promise.allSettled gives for
\* carriers.map(carrier => carrier.getRates(request)): one settled outcome
\* for every registered carrier, in registration order.

\* frac digits compared as the decimals they are: -1, 0 or 1.
RECURSIVE CompareDigits(_, _)
CompareDigits(a, b) ==
    IF Len(a) = 0 /\ Len(b) = 0 THEN 0
    ELSE IF Len(a) = 0 THEN -1
    ELSE IF Len(b) = 0 THEN 1
    ELSE IF DigitValue(a[1]) < DigitValue(b[1]) THEN -1
    ELSE IF DigitValue(a[1]) > DigitValue(b[1]) THEN 1
    ELSE CompareDigits(Tail2(a), Tail2(b))

CompareMagnitude(a, b) ==
    IF a.int < b.int THEN -1
    ELSE IF a.int > b.int THEN 1
    ELSE CompareDigits(a.frac, b.frac)

\* The sign of a - b for two numbers as parseFloat gives them; NaN when one
\* of them is, which sort's comparator protocol reads as 0.
Minus(a, b) ==
    IF a.nan \/ b.nan THEN 0
    ELSE IF NegativeFloat(a) /\ ~NegativeFloat(b) THEN -1
    ELSE IF ~NegativeFloat(a) /\ NegativeFloat(b) THEN 1
    ELSE IF NegativeFloat(a) THEN CompareMagnitude(b, a)
    ELSE CompareMagnitude(a, b)

\* (a, b) => a.totalCharge - b.totalCharge
byTotalCharge(a, b) == Minus(a.totalCharge, b.totalCharge)

\* Array.prototype.sort is stable: q goes before the first quote that the
\* comparator puts after it.
RECURSIVE InsertSorted(_, _)
InsertSorted_AtEnd(sorted, q) == Append(sorted, q)

InsertSorted(sorted, q) ==
    IF Len(sorted) = 0 THEN <<q>>
    ELSE IF byTotalCharge(q, sorted[1]) < 0 THEN <<q>> \o sorted
    ELSE <<sorted[1]>> \o InsertSorted(Tail(sorted), q)

RECURSIVE SortQuotes(_, _)
SortQuotes(quotes, sorted) ==
    IF Len(quotes) = 0 THEN sorted
    ELSE SortQuotes(Tail(quotes), InsertSorted(sorted, quotes[1]))

\* results.forEach: allQuotes.push(...result.value.quotes) for the
\* fulfilled, errors.push(...) for the rejected.
RECURSIVE CollectQuotes(_)
CollectQuotes(results) ==
    IF Len(results) = 0 THEN <<>>
    ELSE IF results[1].state = "fulfilled"
    THEN results[1].quotes \o CollectQuotes(Tail(results))
    ELSE CollectQuotes(Tail(results))

RECURSIVE CollectErrors(_)
CollectErrors(results) ==
    IF Len(results) = 0 THEN <<>>
    ELSE IF results[1].state = "rejected"
    THEN <<results[1].error>> \o CollectErrors(Tail(results))
    ELSE CollectErrors(Tail(results))

\* throw new Error('No carriers registered')
NoCarriersError == Err("Error", 0)

AllRatesReturn(allQuotes, errors) ==
    IF Len(allQuotes) = 0 /\ Len(errors) > 0
    THEN ErrorResult(errors[1])
    ELSE QuotesResult(SortQuotes(allQuotes, <<>>))

getAllRates(results) ==
    IF Len(results) = 0 THEN ErrorResult(NoCarriersError)
    ELSE AllRatesReturn(CollectQuotes(results), CollectErrors(results))

\* --------------------------------------------------------------- history
\* invalidated records how the last invalidateToken() (a caller's, or the
\* one transformError makes) relates to the getToken() calls around it:
\*   "idle"       it found no refresh in flight; no getToken() since
\*   "busy"       it found a refresh in flight; no getToken() since
\*   "afterIdle"  the last getToken() was the first after an "idle" one
\*   "afterBusy"  the last getToken() was the first after a "busy" one
\*   "none"       otherwise
InvalidateMark == IF tokenRefreshPromise = 0 THEN "idle" ELSE "busy"

Served(mark) ==
    IF mark = "idle" THEN "afterIdle"
    ELSE IF mark = "busy" THEN "afterBusy"
    ELSE "none"

\* authFailed does the same for the last 401/403 answer of the rating
\* endpoint and the getRates calls after it; "idle" also requires that no
\* other operation has called getToken() since the answer.
AuthFailMark == IF tokenRefreshPromise = 0 THEN "idle" ELSE "busy"

Intervened(mark) == IF mark = "idle" THEN "busy" ELSE mark

\* --------------------------------------------------------------- actions
\* No pure function has been called directly.
NoProbe == [fn |-> "none"]

Init ==
    /\ now = 0
    /\ cachedToken = NoToken
    /\ tokenRefreshPromise = 0
    /\ fetches = <<>>
    /\ fetchCount = 0
    /\ calls = <<>>
    /\ callCount = 0
    /\ lastDone = NoCall
    /\ invalidated = "none"
    /\ authFailed = "none"
    /\ probe = NoProbe

\* A call goes on (it awaits a promise or an HTTP answer) or is complete.
Proceed(call) ==
    IF call.pc = "done"
    THEN /\ lastDone' = call
         /\ UNCHANGED calls
    ELSE /\ calls' = Append(calls, call)
         /\ lastDone' = NoCall

\* getToken, this.tokenRefreshPromise = this.fetchNewToken(): the marker now
\* holds the promise of fetch f.
StartRefresh_NotStored(f) == 0

StartRefresh(f) == f

\* getToken() up to its first suspension, called on behalf of op (req is
\* the request of a getRates).
InvokeGetToken(op, req) ==
    IF CacheHit
    THEN /\ Proceed(AfterToken([NewCall(op, 0, FALSE) EXCEPT !.req = req],
                               Fulfilled(cachedToken.token)))
         /\ UNCHANGED <<fetches, fetchCount, tokenRefreshPromise>>
    ELSE IF RefreshInProgress
    THEN /\ Proceed([NewCall(op, tokenRefreshPromise, FALSE) EXCEPT !.req = req])
         /\ UNCHANGED <<fetches, fetchCount, tokenRefreshPromise>>
    ELSE /\ fetchCount' = fetchCount + 1
         /\ fetches' = (fetchCount' :> [answer |-> NoAnswer, outcome |-> NoOutcome])
                          @@ fetches
         /\ tokenRefreshPromise' = StartRefresh(fetchCount')
         /\ Proceed([NewCall(op, fetchCount', TRUE) EXCEPT !.req = req])

\* A caller calls auth.getToken().
CallGetToken ==
    /\ Quiescent
    /\ callCount < MaxCalls
    /\ callCount' = callCount + 1
    /\ InvokeGetToken("getToken", NoRequest)
    /\ invalidated' = Served(invalidated)
    /\ authFailed' = Intervened(authFailed)
    /\ UNCHANGED <<now, cachedToken>>
    /\ UNCHANGED probe

\* A caller calls carrier.healthCheck().
CallHealthCheck ==
    /\ Quiescent
    /\ callCount < MaxCalls
    /\ callCount' = callCount + 1
    /\ InvokeGetToken("healthCheck", NoRequest)
    /\ invalidated' = Served(invalidated)
    /\ authFailed' = Intervened(authFailed)
    /\ UNCHANGED <<now, cachedToken>>
    /\ UNCHANGED probe

\* A caller calls carrier.getRates(req): validateRateRequest, then the POST
\* whose request interceptor calls getToken().
CallGetRates(req) ==
    /\ Quiescent
    /\ callCount < MaxCalls
    /\ callCount' = callCount + 1
    /\ IF validateRateRequest(Requests[req])
       THEN /\ InvokeGetToken("getRates", req)
            /\ invalidated' = Served(invalidated)
            /\ authFailed' = Served(authFailed)
       ELSE /\ Proceed([NewCall("getRates", 0, FALSE) EXCEPT
                           !.pc = "done", !.req = req,
                           !.result = ErrorResult(ZodError)])
            /\ UNCHANGED <<fetches, fetchCount, tokenRefreshPromise,
                           invalidated, authFailed>>
    /\ UNCHANGED <<now, cachedToken>>
    /\ UNCHANGED probe

\* A caller calls auth.invalidateToken().
InvalidateToken ==
    /\ Quiescent
    /\ callCount < MaxCalls
    /\ callCount' = callCount + 1
    /\ cachedToken' = invalidateToken(cachedToken)
    /\ invalidated' = InvalidateMark
    /\ lastDone' = [NewCall("invalidateToken", 0, FALSE) EXCEPT !.pc = "done"]
    /\ UNCHANGED <<now, tokenRefreshPromise, fetches, fetchCount, calls,
                   authFailed>>
    /\ UNCHANGED probe

\* Time passes.  The clock is read in two places: isTokenValid compares it
\* with the cached expiry, and fetchNewToken adds it to expires_in; only the
\* distance between the two is ever observed, so the clock is advanced
\* while a cached token is still valid and nowhere else.
Tick ==
    /\ Quiescent
    /\ CacheHit
    /\ now < MaxTicks * TickMs
    /\ now' = now + TickMs
    /\ lastDone' = NoCall
    /\ UNCHANGED <<cachedToken, tokenRefreshPromise, fetches, fetchCount, calls,
                   callCount, invalidated, authFailed>>
    /\ UNCHANGED probe

\* The token endpoint answers fetch f (or the request times out or the
\* connection fails): fetchNewToken resumes.
TokenResponse(f, ans) ==
    /\ Quiescent
    /\ Pending(f)
    /\ LET r == fetchNewToken(ans, cachedToken, now) IN
          /\ cachedToken' = r.cache
          /\ fetches' = [fetches EXCEPT ![f] = [answer |-> ans, outcome |-> r.outcome]]
    /\ lastDone' = NoCall
    /\ UNCHANGED <<now, tokenRefreshPromise, fetchCount, calls, callCount,
                   invalidated, authFailed>>
    /\ UNCHANGED probe

\* What a getToken() that awaited fetch f resumes with: the settled value
\* of the one promise fetchNewToken() returned, for the call that started
\* the fetch (await) and for those that returned the promise alike.
AwaitedOutcome(f) == fetches[f].outcome

\* The finally block of the getToken() that started the refresh.
ClearsMarker_OnSuccessOnly(call) ==
    call.starter /\ fetches[call.refresh].outcome.state = "fulfilled"

ClearsMarker(call) == call.starter

\* getToken() of call c resumes with its refresh promise settled.
Resume(c) ==
    /\ Runnable(c)
    /\ LET f == calls[c].refresh
           after == AfterToken([calls[c] EXCEPT !.answer = fetches[f].answer],
                               AwaitedOutcome(f))
       IN
          /\ tokenRefreshPromise' =
                IF ClearsMarker(calls[c]) THEN 0 ELSE tokenRefreshPromise
          /\ IF after.pc = "done"
             THEN /\ calls' = Remove(calls, c)
                  /\ lastDone' = after
             ELSE /\ calls' = [calls EXCEPT ![c] = after]
                  /\ lastDone' = NoCall
          /\ fetches' =
                [g \in { h \in FetchIds :
                            \/ Pending(h)
                            \/ h = tokenRefreshPromise'
                            \/ \E d \in 1..Len(calls') :
                                  /\ calls'[d].pc = "awaitToken"
                                  /\ calls'[d].refresh = h }
                   |-> fetches[g]]
    /\ UNCHANGED <<now, cachedToken, fetchCount, callCount, invalidated,
                   authFailed>>
    /\ UNCHANGED probe

\* The rating endpoint answers the POST of call c: getRates resumes, through
\* the response interceptor when the answer is an error.
RateResponse(c, ans) ==
    /\ Quiescent
    /\ calls[c].pc = "post"
    /\ calls' = Remove(calls, c)
    /\ IF Is2xx(ans)
       THEN /\ lastDone' = [calls[c] EXCEPT !.pc = "done",
                                            !.status = ans.status,
                                            !.result = RateResults[ans.body]]
            /\ UNCHANGED <<cachedToken, invalidated, authFailed>>
       ELSE LET r == transformError(AxiosErrorOf(ans)) IN
            /\ lastDone' = [calls[c] EXCEPT !.pc = "done",
                                            !.status = ans.status,
                                            !.result = ErrorResult(r.error)]
            /\ cachedToken' = IF r.invalidate THEN invalidateToken(cachedToken)
                              ELSE cachedToken
            /\ invalidated' = IF r.invalidate THEN InvalidateMark ELSE invalidated
            /\ authFailed' = IF r.invalidate THEN AuthFailMark ELSE authFailed
    /\ UNCHANGED <<now, tokenRefreshPromise, fetches, fetchCount, callCount>>
    /\ UNCHANGED probe

Next ==
    \/ CallGetToken
    \/ CallHealthCheck
    \/ \E req \in DOMAIN Requests : CallGetRates(req)
    \/ InvalidateToken
    \/ Tick
    \/ \E f \in FetchIds : \E ans \in TokenAnswers(f) : TokenResponse(f, ans)
    \/ \E c \in Calls : Resume(c)
    \/ \E c \in Calls : \E ans \in RateAnswers : RateResponse(c, ans)

Spec == Init /\ [][Next]_vars

\* The HTTP clients have timeouts (10 s and 30 s), so every request is
\* answered or fails; continuations of settled promises always run.
FairSpec ==
    /\ Spec
    /\ WF_vars(\E c \in Calls : Resume(c))
    /\ WF_vars(\E f \in FetchIds : \E ans \in TokenAnswers(f) : TokenResponse(f, ans))

\* The token manager used on its own, as by callers that hold a UPSAuth.
AuthNext ==
    \/ CallGetToken
    \/ InvalidateToken
    \/ Tick
    \/ \E f \in FetchIds : \E ans \in TokenAnswers(f) : TokenResponse(f, ans)
    \/ \E c \in Calls : Resume(c)

FairAuthSpec ==
    /\ Init /\ [][AuthNext]_vars
    /\ WF_vars(\E c \in Calls : Resume(c))
    /\ WF_vars(\E f \in FetchIds : \E ans \in TokenAnswers(f) : TokenResponse(f, ans))

\* ----------------------------------------------------------- direct calls
\* The exported functions of the carrier layer called on their own, as the
\* unit tests call them: probe records the function, its argument and
\* what it returned or threw.
carrierVars == <<now, cachedToken, tokenRefreshPromise, fetches, fetchCount,
                 calls, callCount, lastDone, invalidated, authFailed>>

Call(fn, input, output) == [fn |-> fn, input |-> input, output |-> output]

\* The functions called keep no state: a behaviour makes one call.
NotCalled == probe.fn = "none"

\* The characters the strings of the model are made of.
Alphabet == {"0", "1", "7", "a", "-", " ", "."}

RECURSIVE StringsUpTo(_)
StringsUpTo(n) ==
    IF n = 0 THEN {<<>>}
    ELSE LET shorter == StringsUpTo(n - 1) IN
         shorter \cup { <<ch>> \o t : ch \in Alphabet,
                                      t \in { u \in shorter : Len(u) = n - 1 } }

\* An optional string field: undefined, or a string of up to MaxLen
\* characters.
OptionalStrings == {Undef} \cup { Str(chars) : chars \in StringsUpTo(MaxLen) }

\* The errors axios rejects a rating POST with.
AxiosErrors ==
    { AxiosError(code, FALSE, 0) : code \in {"ECONNABORTED", "ETIMEDOUT", "ERR_NETWORK"} }
    \cup { WithRetryAfter(AxiosError("ERR_BAD_RESPONSE", TRUE, st), h) :
              st \in {400, 401, 403, 404, 429, 500, 503}, h \in OptionalStrings }

\* transformError(e) is called.
CallTransformError ==
    /\ NotCalled
    /\ \E e \in AxiosErrors :
          probe' = Call("transformError", e, transformError(e))
    /\ UNCHANGED carrierVars

\* Service codes of rated shipments: the listed ones, one that UPS does
\* not have, the names a lookup inherits, and the empty code.
ListedCodes == { e[1] : e \in UPS_SERVICE_CODES }
ServiceCodes == ListedCodes \cup {"99", "constructor", "__proto__", ""}

StringsOf(n) == { u \in StringsUpTo(n) : Len(u) = n }

\* Regular and negotiated charge blocks: absent, or with a currency code
\* of three or of two characters and any short string as the value.
MonetaryStrings ==
    { Str(chars) : chars \in StringsUpTo(MaxLen) }
    \cup { Str(<<"1", "2", ".", "5", "0">>), Str(<<"8", ".", "2", "5">>) }
TotalCharges ==
    {NoCharge}
    \cup { Charge(cur, v) : cur \in {USD, Str(<<"U", "S">>)}, v \in MonetaryStrings }
NegotiatedCharges ==
    {NoNegotiated, Negotiated(NoCharge),
     Negotiated(Charge(EUR, Str(<<"8", ".", "2", "5">>))),
     Negotiated(Charge(EUR, Str(<<"7">>))),
     Negotiated(Charge(EUR, Str(<<"a">>)))}

\* Arrival dates: absent, short strings, and strings of eight characters
\* made of a year, any two characters as the month, and a day.
YearParts ==
    { <<"2", "0", "2", "4">>, <<"2", "a", "2", "4">>, <<" ", " ", " ", " ">> }
DayParts ==
    { <<"0", "7">>, <<"3", "1">>, <<"3", "2">>, <<"0", "0">>, <<"7", "a">>,
      <<" ", "7">>, <<"a", "7">> }
ArrivalDates ==
    OptionalStrings
    \cup { Str(y \o m \o dd) : y \in YearParts, m \in StringsOf(2), dd \in DayParts }

\* The rated shipments the mapper is called on: the fixture with one part
\* of it replaced.
RatedShipments ==
    { [Ground EXCEPT !.Service.Code = code, !.TotalCharges = total,
                     !.NegotiatedRateCharges = negotiated] :
         code \in ServiceCodes,
         total \in {NoCharge, Ground.TotalCharges},
         negotiated \in NegotiatedCharges }
    \cup { [Ground EXCEPT !.Service.Description = "",
                          !.TotalCharges = total,
                          !.NegotiatedRateCharges = negotiated] :
              total \in TotalCharges, negotiated \in NegotiatedCharges }
    \cup { [Ground EXCEPT !.TimeInTransit = TimeInTransit(date, Undef)] :
              date \in ArrivalDates }
    \cup { [Ground EXCEPT !.GuaranteedDelivery = guaranteed,
                          !.TimeInTransit = TimeInTransit(Undef, days)] :
              guaranteed \in {NoGuaranteed}
                              \cup { Guaranteed(g) : g \in OptionalStrings },
              days \in {Undef, Str(<<"7">>), Str(<<"a">>), Str(<<"-", "1">>)} }

\* The rated shipments of the bodies getRates is given: two that map, two
\* whose service code does not, and four the schema rejects.
BodyShipments ==
    { Ground, SecondDay,
      [Ground EXCEPT !.Service.Code = "13"],
      [Ground EXCEPT !.Service.Code = "99"],
      [Ground EXCEPT !.Service.Code = ""],
      [Ground EXCEPT !.TotalCharges = NoCharge],
      [Ground EXCEPT !.TotalCharges.CurrencyCode = Str(<<"U", "S">>)],
      [Ground EXCEPT !.TotalCharges.MonetaryValue = Str(<<"a">>)] }

RECURSIVE ShipmentLists(_)
ShipmentLists(n) ==
    IF n = 0 THEN {<<>>}
    ELSE LET shorter == ShipmentLists(n - 1) IN
         shorter \cup { Append(l, e) : l \in { k \in shorter : Len(k) = n - 1 },
                                       e \in BodyShipments }

ResponseBodies ==
    { [RateResponse |-> present, ResponseStatus |-> present /\ status,
       RatedShipment |-> shipments] :
         present \in BOOLEAN, status \in BOOLEAN,
         shipments \in ShipmentLists(MaxShipments) }

\* mapUPSRatedShipmentToQuote(e) is called.
CallMapRatedShipment ==
    /\ NotCalled
    /\ \E e \in RatedShipments :
          probe' = Call("mapUPSRatedShipmentToQuote", e,
                        mapUPSRatedShipmentToQuote(e))
    /\ UNCHANGED carrierVars

\* getRates is resumed with a 2xx response whose body is b.
CallGetRatesResponse ==
    /\ NotCalled
    /\ \E b \in ResponseBodies : probe' = Call("getRates", b, RatesRun(b))
    /\ UNCHANGED carrierVars

\* The packages of a request: the fixture's parcel, and a heavier one in
\* kilograms with a declared value.
InsuredParcel ==
    [Parcel EXCEPT !.weight = [value |-> Num(20), unit |-> Str(<<"KG">>)],
                   !.value = Num(100)]

RECURSIVE PackageLists(_)
PackageLists(n) ==
    IF n = 1 THEN { <<pkg>> : pkg \in {Parcel, InsuredParcel} }
    ELSE LET shorter == PackageLists(n - 1) IN
         shorter \cup { Append(l, pkg) : l \in { k \in shorter : Len(k) = n - 1 },
                                         pkg \in {Parcel, InsuredParcel} }

\* The validated requests getRates maps: the fixture request with either
\* address residential or not, one to MaxPackages packages, and a service
\* level or none.
MappedRequests ==
    { [ValidRequest EXCEPT !.origin.residential = Bool(from),
                           !.destination.residential = Bool(to),
                           !.packages = packages,
                           !.serviceLevel = level] :
         from \in BOOLEAN, to \in BOOLEAN,
         packages \in PackageLists(MaxPackages),
         level \in {Undef} \cup { Str(<<l>>) : l \in ServiceLevels } }

AccountNumbers == { Str(<<"A", "1">>), Str(<<"B", "2">>) }

\* mapRateRequestToUPS(request, accountNumber) is called.
CallMapRateRequest ==
    /\ NotCalled
    /\ \E request \in MappedRequests : \E accountNumber \in AccountNumbers :
          probe' = Call("mapRateRequestToUPS",
                        [request |-> request, accountNumber |-> accountNumber],
                        mapRateRequestToUPS(request, accountNumber))
    /\ UNCHANGED carrierVars

\* The quotes carriers answer with: two carriers, equal and different
\* charges.
ServiceQuote(carrier, level, charge) ==
    [carrier |-> carrier, serviceLevel |-> level, serviceName |-> level,
     totalCharge |-> parseFloat(charge), currency |-> USD,
     estimatedDeliveryDate |-> Undef, transitDays |-> Undef,
     guaranteedDelivery |-> FALSE]

ServiceQuotes ==
    { ServiceQuote("UPS", "GROUND", <<"1", "2", ".", "5">>),
      ServiceQuote("FEDEX", "GROUND", <<"1", "2", ".", "5">>),
      ServiceQuote("UPS", "2ND_DAY_AIR", <<"7", ".", "2", "5">>) }

\* A RateResponse's quotes: none, one or two.
QuoteLists ==
    {<<>>} \cup { <<q>> : q \in ServiceQuotes }
           \cup { <<q, r>> : q \in ServiceQuotes, r \in ServiceQuotes }

\* What a registered carrier's getRates settles to: a RateResponse with
\* any number of quotes, or an error.
CarrierOutcomes ==
    { QuotesResult(l) : l \in QuoteLists }
    \cup { ErrorResult(e) : e \in {NetworkError, CarrierAPIError(500)} }

RECURSIVE SettledLists(_)
SettledLists(n) ==
    IF n = 0 THEN {<<>>}
    ELSE LET shorter == SettledLists(n - 1) IN
         shorter \cup { Append(l, o) : l \in { k \in shorter : Len(k) = n - 1 },
                                       o \in CarrierOutcomes }

\* getAllRates(request) is called on a service with up to MaxCarriers
\* registered carriers, whose getRates calls settle to results.
CallGetAllRates ==
    /\ NotCalled
    /\ \E results \in SettledLists(MaxCarriers) :
          probe' = Call("getAllRates", results, getAllRates(results))
    /\ UNCHANGED carrierVars

MapperNext ==
    \/ CallTransformError
    \/ CallMapRatedShipment
    \/ CallGetRatesResponse
    \/ CallMapRateRequest
    \/ CallGetAllRates

MapperSpec == Init /\ [][MapperNext]_vars

TypeOK ==
    /\ now \in Nat
    /\ cachedToken.present \in BOOLEAN
    /\ tokenRefreshPromise \in 0..fetchCount
    /\ FetchIds \subseteq 1..fetchCount
    /\ fetchCount <= callCount
    /\ callCount \in 0..MaxCalls
    /\ Len(calls) <= callCount
    /\ invalidated \in {"none", "idle", "busy", "afterIdle", "afterBusy"}
    /\ authFailed \in {"none", "idle", "busy", "afterIdle", "afterBusy"}

\* ================================================================ claims
\* A step that calls an operation, and the record of the call it makes.
Issued == callCount' = callCount + 1

Issuing == IF Len(calls') > Len(calls) THEN calls'[Len(calls')] ELSE lastDone'

\* A step in which getToken() is called: by a caller, by healthCheck or by
\* the request interceptor of a getRates whose request passed validation.
GetTokenCalled ==
    /\ Issued
    /\ Issuing.op \in {"getToken", "healthCheck", "getRates"}
    /\ ~(Issuing.pc = "done" /\ Issuing.tok.state = "none")

\* The cache holds a token whose stored expiry lies in the future.
ValidCache ==
    /\ cachedToken.present
    /\ IsNumber(cachedToken.expiresAt)
    /\ now < cachedToken.expiresAt.n

PendingFetches == { f \in FetchIds : Pending(f) }

Awaiting(f) ==
    { c \in Calls : calls[c].pc = "awaitToken" /\ calls[c].refresh = f }

\* ---- C1
C1_OneInFlight ==
    /\ Cardinality(PendingFetches) <= 1
    /\ \A f \in PendingFetches : tokenRefreshPromise = f

C1_JoinsRefresh ==
    (GetTokenCalled /\ ~ValidCache /\ PendingFetches # {})
        => /\ fetchCount' = fetchCount
           /\ fetches' = fetches
           /\ Issuing.pc = "awaitToken"
           /\ ~Issuing.starter
           /\ Issuing.refresh \in PendingFetches

\* C1: at every moment at most one token fetch is in flight, and it is the
\* one the in-progress marker holds; a getToken() that finds no valid cached
\* token while a refresh is underway starts no fetch and awaits that refresh.
C1_SingleFlight == []C1_OneInFlight /\ [][C1_JoinsRefresh]_vars

\* Two calls await the one fetch that is in flight.
C1_Witness ==
    \E f \in PendingFetches : Cardinality(Awaiting(f)) >= 2

\* ---- C2
C2_SharedRequest ==
    /\ \A c, d \in Calls :
          (calls[c].pc = "awaitToken" /\ calls[d].pc = "awaitToken")
              => calls[c].refresh = calls[d].refresh
    /\ (lastDone.refresh # 0 /\ ~lastDone.posted /\ lastDone.tok.state = "fulfilled")
          => /\ lastDone.tok.token = lastDone.answer.data.access_token
             /\ lastDone.tok.token \in {FreshToken(lastDone.refresh), Undef}
    /\ \A c \in Calls :
          (calls[c].pc = "post" /\ calls[c].refresh # 0)
              => calls[c].bearer \in {FreshToken(calls[c].refresh), Undef}

C2_OneRequest ==
    (GetTokenCalled /\ ~ValidCache)
        => fetchCount' = fetchCount + (IF PendingFetches = {} THEN 1 ELSE 0)

\* C2: getToken() calls made concurrently while no valid token is cached
\* cause exactly one request to the token endpoint (the first call starts
\* it, the others start none), they all await that request, and each of
\* them resolves to the token that request returned.
C2_ConcurrentCallsShareOneRequest == []C2_SharedRequest /\ [][C2_OneRequest]_vars

\* Three calls were made, one request went out, and a call that did not
\* start it has just resolved to its token.
C2_Witness ==
    /\ callCount >= 3
    /\ fetchCount = 1
    /\ lastDone.refresh = 1
    /\ ~lastDone.starter
    /\ lastDone.tok = Fulfilled(FreshToken(1))

\* ---- C3
C3_ServedFromCache ==
    (GetTokenCalled /\ ValidCache)
        => /\ fetchCount' = fetchCount
           /\ UNCHANGED <<cachedToken, fetches, tokenRefreshPromise>>
           /\ Issuing.refresh = 0
           /\ Issuing.tok = Fulfilled(cachedToken.token)

\* C3: a getToken() called while the cached token is valid (the current
\* time is before its stored expiry) returns the cached token and makes no
\* network call: the token endpoint has been invoked for the initial
\* acquisition only.
C3_ValidTokenIsReused == [][C3_ServedFromCache]_vars

\* A getToken() has just been answered from the cache, after one request.
C3_Witness ==
    /\ lastDone.op = "getToken"
    /\ lastDone.refresh = 0
    /\ lastDone.result = TokenResult(Fulfilled(FreshToken(1)))
    /\ ValidCache
    /\ fetchCount = 1

\* ---- C4
C4_AnyInvalidation ==
    (invalidated \in {"idle", "busy"} /\ GetTokenCalled)
        => fetchCount' = fetchCount + 1

C4_Invalidates ==
    lastDone'.op = "invalidateToken"
        => /\ ~cachedToken'.present
           /\ UNCHANGED <<tokenRefreshPromise, fetches, fetchCount>>

C4_Refetches ==
    (invalidated = "idle" /\ GetTokenCalled)
        => /\ fetchCount' = fetchCount + 1
           /\ Issuing.pc = "awaitToken"
           /\ Issuing.starter
           /\ Issuing.refresh = fetchCount'
           /\ tokenRefreshPromise' = fetchCount'
           /\ fetches'[fetchCount'].outcome = NoOutcome

C5_NeverJoinsSettled ==
    (GetTokenCalled /\ Issuing.pc = "awaitToken")
        => fetches'[Issuing.refresh].outcome = NoOutcome

C5_RetriesAfterFailure ==
    (lastDone.tok.state = "rejected" /\ GetTokenCalled)
        => /\ fetchCount' = fetchCount + 1
           /\ Issuing.starter
           /\ Issuing.refresh = fetchCount'

C5_MarkerSettled == tokenRefreshPromise # 0 /\ Settled(tokenRefreshPromise)

\* C5: once a fetch has resolved, with a token or with a failure, the
\* in-progress marker is eventually cleared; a getToken() never attaches to
\* a fetch that has already resolved, and the one called after a failed
\* fetch has resolved starts a new fetch.
C5_MarkerIsCleared ==
    /\ (C5_MarkerSettled ~> (tokenRefreshPromise = 0))
    /\ [][C5_NeverJoinsSettled]_vars
    /\ [][C5_RetriesAfterFailure]_vars

\* The call that started a fetch has just received its failure, and the
\* marker is clear for the next call.
C5_Witness ==
    /\ lastDone.starter
    /\ lastDone.tok = Rejected(AuthenticationError)
    /\ tokenRefreshPromise = 0
    /\ callCount < MaxCalls

\* ---- C6
\* C6: a 2xx answer of the token endpoint whose body does not have the
\* token response's shape makes getToken() fail with a ValidationError and
\* caches nothing: a cached token always has a non-empty string as its
\* token and a number as its expiry.
C6_MalformedBodyIsRejected ==
    /\ (/\ lastDone.refresh # 0
        /\ ~lastDone.posted
        /\ Is2xx(lastDone.answer)
        /\ ~WellFormedTokenBody(lastDone.answer.data))
          => lastDone.tok = Rejected(ValidationError)
    /\ cachedToken.present
          => /\ NonEmptyString(cachedToken.token)
             /\ IsNumber(cachedToken.expiresAt)

\* ---- C7
\* C7: a network failure, a timeout or a non-2xx answer of the token
\* endpoint rejects the fetch with an AuthenticationError, and every call
\* that awaited the fetch, the one that started it and those that joined
\* it, receives that error.
C7_FetchFailureIsAuthenticationError ==
    /\ \A f \in FetchIds :
          (Settled(f) /\ ~Is2xx(fetches[f].answer))
              => fetches[f].outcome = Rejected(AuthenticationError)
    /\ (lastDone.refresh # 0 /\ lastDone.answer.kind # "none"
                             /\ ~Is2xx(lastDone.answer))
          => /\ lastDone.tok = Rejected(AuthenticationError)
             /\ lastDone.op = "getToken"
                   => lastDone.result = ErrorResult(AuthenticationError)

\* A getToken() that joined a fetch has just failed with the error of the
\* fetch's network failure.
C7_Witness ==
    /\ lastDone.op = "getToken"
    /\ lastDone.refresh # 0
    /\ ~lastDone.starter
    /\ lastDone.answer.kind = "network"
    /\ lastDone.result = ErrorResult(AuthenticationError)

\* ---- C8
RatesTokenAsked == GetTokenCalled /\ Issuing.op = "getRates"

C8_AnyAuthFailure ==
    (authFailed \in {"idle", "busy"} /\ RatesTokenAsked)
        => fetchCount' = fetchCount + 1

\* C8 as stated: after a 401/403 of the rating endpoint the next getRates
\* performs a new token fetch before its POST.
C8_Original == [][C8_AnyAuthFailure]_vars

C8_FailsAndInvalidates ==
    lastDone.status \in {401, 403}
        => /\ lastDone.result = ErrorResult(AuthenticationError)
           /\ ~cachedToken.present

C8_Refetches ==
    (authFailed = "idle" /\ RatesTokenAsked)
        => /\ fetchCount' = fetchCount + 1
           /\ Issuing.pc = "awaitToken"
           /\ Issuing.starter
           /\ Issuing.refresh = fetchCount'
           /\ ~Issuing.posted

C8_SendsFetchedToken ==
    \A c \in Calls :
        (calls[c].pc = "post" /\ calls[c].starter)
            => calls[c].bearer \in {FreshToken(calls[c].refresh), Undef}

\* C8: a 401 or 403 of the rating endpoint fails that getRates with an
\* AuthenticationError and empties the token cache at once; when no token
\* fetch was in flight at that moment and no other operation has asked for
\* a token since, the next getRates starts a new token fetch, makes no POST
\* before it resolves, and sends the token that fetch returned.
C8_AuthFailureInvalidatesToken ==
    /\ []C8_FailsAndInvalidates
    /\ []C8_SendsFetchedToken
    /\ [][C8_Refetches]_vars

\* The getRates after a 401/403 has fetched the second token and its POST
\* carries it.
C8_Witness ==
    /\ authFailed = "afterIdle"
    /\ fetchCount >= 2
    /\ \E c \in Calls :
          /\ calls[c].pc = "post"
          /\ calls[c].starter
          /\ calls[c].refresh = fetchCount
          /\ calls[c].bearer = FreshToken(fetchCount)

\* ---- C9
\* Requests the schema must refuse: no package, a missing required field,
\* a postal code that is not 5 digits or 5+4.
C9_Invalid(req) ==
    \/ Len(req.packages) = 0
    \/ IsUndefined(req.origin.city)
    \/ ~MatchesPostalCode(req.destination.postalCode.s)

C9_RejectedBeforeAnyRequest ==
    (Issued /\ Issuing.op = "getRates" /\ C9_Invalid(Requests[Issuing.req]))
        => /\ Issuing.pc = "done"
           /\ Issuing.result.state = "rejected"
           /\ Issuing.refresh = 0
           /\ ~Issuing.posted
           /\ UNCHANGED <<cachedToken, fetches, fetchCount, tokenRefreshPromise>>

\* C9: getRates validates its request first: a structurally invalid request
\* fails the call at once, with no token request, no rating request and the
\* token cache unchanged.
C9_InvalidRequestTouchesNothing == [][C9_RejectedBeforeAnyRequest]_vars

\* A getRates with an invalid request has just failed while a token is
\* cached.
C9_Witness ==
    /\ lastDone.op = "getRates"
    /\ C9_Invalid(Requests[lastDone.req])
    /\ lastDone.result.state = "rejected"
    /\ cachedToken.present

C11_Failed ==
    /\ lastDone.op = "getRates"
    /\ lastDone.pc = "done"
    /\ lastDone.posted
    /\ lastDone.status \notin 200..299

\* The error kind the contract gives a failure; status 0 stands for no
\* response at all (timeout, connection failure).
C11_KindOf(status) ==
    IF status = 0 THEN NetworkError
    ELSE IF status = 429 THEN RateLimitError
    ELSE IF status \in {401, 403} THEN AuthenticationError
    ELSE CarrierAPIError(status)

C11_OneKindPerFailure ==
    C11_Failed => lastDone.result = ErrorResult(C11_KindOf(lastDone.status))

\* The step in which the rating endpoint's answer reaches getRates.
C11_Answered ==
    /\ Len(calls') = Len(calls) - 1
    /\ lastDone'.op = "getRates"
    /\ lastDone'.posted

C11_OnlyAuthFailureTouchesCache ==
    C11_Answered =>
        IF lastDone'.status \in {401, 403}
        THEN ~cachedToken'.present
        ELSE cachedToken' = cachedToken

\* C11: every failed HTTP interaction with the rating endpoint becomes
\* exactly one error kind: no response (timeout, connection failure) ->
\* NetworkError, 429 -> RateLimitError, 401 or 403 -> AuthenticationError,
\* any other error status -> CarrierAPIError carrying the status; and the
\* token cache is changed (emptied) by the 401/403 case only.
C11_FailuresBecomeOneErrorKind ==
    /\ []C11_OneKindPerFailure
    /\ [][C11_OnlyAuthFailureTouchesCache]_vars

\* A 429 answered while a token is cached: RateLimitError, cache kept.
C11_Witness ==
    /\ C11_Failed
    /\ lastDone.status = 429
    /\ lastDone.result = ErrorResult(RateLimitError)
    /\ cachedToken.present

\* ------------------------------------------------------------------- C12
\* A header value that is a non-negative integer numeral.
C12_Numeral(h) ==
    /\ IsString(h)
    /\ Len(h.s) >= 1
    /\ \A i \in 1..Len(h.s) : IsDigit(h.s[i])

\* C12: on HTTP 429 the RateLimitError carries retryAfter only when the
\* Retry-After header is present and a valid non-negative integer, and
\* then retryAfter is that integer; with the header absent, non-numeric
\* or negative, retryAfter is undefined.
C12_RetryAfterOnlyWhenValid ==
    (probe.fn = "transformError" /\ probe.input.hasResponse
                                 /\ probe.input.status = 429)
        => /\ probe.output.error = RateLimitError
           /\ probe.output.retryAfter =
                 IF C12_Numeral(probe.input.retryAfter)
                 THEN Num(DecimalValue(probe.input.retryAfter.s))
                 ELSE Undef

\* ------------------------------------------------------------------- C13
\* getRates was resumed with a 2xx body that passed validateRateResponse.
C13_Mapped == probe.fn = "getRates" /\ validateRateResponse(probe.input)

C13_Entry(i) == mapUPSRatedShipmentToQuote(probe.input.RatedShipment[i])

\* The first entry of the body whose mapping throws.
C13_FirstFailing(i) ==
    /\ ~C13_Entry(i).ok
    /\ \A j \in 1..(i - 1) : C13_Entry(j).ok

\* C13: getRates returns a quote for every rated shipment of the response,
\* in the order of the response, or fails as a whole: when the mapping of
\* an entry throws a ValidationError, getRates throws that error and
\* returns no quotes at all.
C13_AllQuotesOrNone ==
    C13_Mapped =>
        LET shipments == probe.input.RatedShipment
            result == probe.output.result
        IN  IF \A i \in 1..Len(shipments) : C13_Entry(i).ok
            THEN /\ result.state = "fulfilled"
                 /\ Len(result.quotes) = Len(shipments)
                 /\ \A i \in 1..Len(shipments) :
                       result.quotes[i] = C13_Entry(i).value
            ELSE /\ result = ErrorResult(ValidationError)
                 /\ result.quotes = <<>>
                 /\ \E i \in 1..Len(shipments) :
                       /\ C13_FirstFailing(i)
                       /\ probe.output.message = C13_Entry(i).message

\* A body whose first entry maps and whose second has an unknown code.
C13_Witness ==
    /\ C13_Mapped
    /\ Len(probe.input.RatedShipment) = 2
    /\ C13_Entry(1).ok
    /\ ~C13_Entry(2).ok
    /\ probe.output.result = ErrorResult(ValidationError)
    /\ probe.output.message = Message("Unknown UPS service code", "99")

\* ------------------------------------------------------------------- C14
\* A numeric string: digits with at most one dot after the first digit.
C14_Numeric(v) ==
    /\ IsString(v)
    /\ Len(v.s) >= 1
    /\ IsDigit(v.s[1])
    /\ \A i \in 1..Len(v.s) : IsDigit(v.s[i]) \/ v.s[i] = "."
    /\ Cardinality({ i \in 1..Len(v.s) : v.s[i] = "." }) <= 1

C14_BadEntry(e) ==
    \/ e.Service.Code = ""
    \/ ~e.TotalCharges.present
    \/ ~(IsString(e.TotalCharges.CurrencyCode) /\ Len(e.TotalCharges.CurrencyCode.s) = 3)
    \/ ~C14_Numeric(e.TotalCharges.MonetaryValue)

C14_Malformed(b) ==
    \/ ~b.RateResponse
    \/ ~b.ResponseStatus
    \/ Len(b.RatedShipment) = 0
    \/ \E i \in 1..Len(b.RatedShipment) : C14_BadEntry(b.RatedShipment[i])

\* C14: a 2xx rating response without RateResponse or its response-status
\* block, with no rated shipment, or with an entry that has no service
\* code, no TotalCharges, a currency code not of 3 characters or a
\* monetary value that is not a numeric string makes getRates fail with a
\* ValidationError before the mapper is called on any entry.
C14_ValidatedBeforeMapping ==
    (probe.fn = "getRates" /\ C14_Malformed(probe.input))
        => /\ probe.output.result = ErrorResult(ValidationError)
           /\ probe.output.message =
                 Message("Invalid UPS Rate API response structure", "")
           /\ probe.output.mapped = 0

\* A malformed entry behind one that would map.
C14_Witness ==
    /\ probe.fn = "getRates"
    /\ probe.input.RateResponse
    /\ probe.input.ResponseStatus
    /\ Len(probe.input.RatedShipment) = 2
    /\ probe.input.RatedShipment[1] = Ground
    /\ C14_BadEntry(probe.input.RatedShipment[2])
    /\ probe.output.result = ErrorResult(ValidationError)
    /\ probe.output.mapped = 0

\* ------------------------------------------------------------------- C15
\* A charge block as the response schema lets it through: absent, or with
\* a currency code of 3 characters and a numeric monetary value.
C15_Conforms(block) ==
    ~block.present
    \/ (/\ IsString(block.CurrencyCode) /\ Len(block.CurrencyCode.s) = 3
        /\ C14_Numeric(block.MonetaryValue))

C15_Case ==
    /\ probe.fn = "mapUPSRatedShipmentToQuote"
    /\ probe.input.Service.Code = "03"
    /\ C15_Conforms(probe.input.TotalCharges)
    /\ C15_Conforms(probe.input.NegotiatedRateCharges.TotalCharge)

C15_From(block) ==
    /\ probe.output.ok
    /\ probe.output.value.totalCharge = parseFloat(block.MonetaryValue.s)
    /\ probe.output.value.currency = block.CurrencyCode

C16_Case ==
    /\ probe.fn = "mapUPSRatedShipmentToQuote"
    /\ probe.input.TotalCharges = Ground.TotalCharges
    /\ ~probe.input.NegotiatedRateCharges.present

\* C16: a rated shipment whose service code is not a key of the lookup
\* table makes the mapping fail with a ValidationError whose message names
\* the unknown code; no quote with a default service level is produced.
C16_UnknownCodeIsNamed ==
    (C16_Case /\ probe.input.Service.Code \notin ListedCodes)
        => /\ ~probe.output.ok
           /\ probe.output.error = ValidationError
           /\ probe.output.message =
                 Message("Unknown UPS service code", probe.input.Service.Code)

\* ------------------------------------------------------------------- C17
C17_ListedCodes == {"03", "12", "01", "14", "13", "02", "59", "11"}

\* C17: every wire code listed in the lookup table is mapped to a member
\* of the service-level enum, so a rated shipment with a listed code and
\* valid charges becomes a quote.
C17_ListedCodesMap ==
    (C16_Case /\ probe.input.Service.Code \in C17_ListedCodes)
        => /\ probe.output.ok
           /\ probe.output.value.serviceLevel \in ServiceLevels

\* ------------------------------------------------------------------- C18
\* C18: for every service level L of the enum, the wire code the request
\* mapper sends for L is mapped back to L by the lookup table.
C18_ReverseTableIsConsistent ==
    (probe.fn = "mapRateRequestToUPS"
        /\ IsString(probe.input.request.serviceLevel))
        => /\ probe.output.Service
           /\ KnownServiceCode(probe.output.Code)
           /\ LevelOfCode(probe.output.Code)
                 = probe.input.request.serviceLevel.s[1]

\* ------------------------------------------------------------------- C19
\* Eight decimal digits with month 01-12 and day 01-31.
C19_WellFormed(date) ==
    /\ IsString(date)
    /\ Len(date.s) = 8
    /\ \A i \in 1..8 : IsDigit(date.s[i])
    /\ DecimalValue(SubSeq(date.s, 5, 6)) \in 1..12
    /\ DecimalValue(SubSeq(date.s, 7, 8)) \in 1..31

C19_Iso(date) ==
    Str(SubSeq(date.s, 1, 4) \o <<"-">> \o SubSeq(date.s, 5, 6)
        \o <<"-">> \o SubSeq(date.s, 7, 8))

\* C19: an arrival date of exactly 8 decimal digits with month 01-12 and
\* day 01-31 gives estimatedDeliveryDate YYYY-MM-DD; any other arrival
\* date string, or none, gives a quote whose estimatedDeliveryDate is
\* undefined; the conversion never fails because of the date.
C19_DateIsBestEffort ==
    C16_Case /\ probe.input.Service.Code = "03"
        => /\ probe.output.ok
           /\ probe.output.value.estimatedDeliveryDate =
                 IF C19_WellFormed(probe.input.TimeInTransit.Date)
                 THEN C19_Iso(probe.input.TimeInTransit.Date)
                 ELSE Undef

\* ------------------------------------------------------------------- C20
\* A non-negative integer numeral.
C20_Numeral(v) ==
    /\ IsString(v)
    /\ Len(v.s) >= 1
    /\ \A i \in 1..Len(v.s) : IsDigit(v.s[i])

\* The field the transit days are taken from: the guaranteed count when
\* it is present (and not the empty string), else the summary count.
C20_Chosen(e) ==
    IF NonEmptyString(e.GuaranteedDelivery.BusinessDaysInTransit)
    THEN e.GuaranteedDelivery.BusinessDaysInTransit
    ELSE e.TimeInTransit.BusinessDaysInTransit

\* C20: transitDays is the numeric value of the guaranteed business-day
\* count when that is present, else of the summary count; when the chosen
\* field is not a non-negative integer numeral transitDays is left out and
\* the conversion does not fail.
C20_TransitDaysIsBestEffort ==
    C16_Case /\ probe.input.Service.Code = "03"
        => /\ probe.output.ok
           /\ probe.output.value.transitDays =
                 IF C20_Numeral(C20_Chosen(probe.input))
                 THEN Num(DecimalValue(C20_Chosen(probe.input).s))
                 ELSE Undef


\* ------------------------------------------------------------------- C21
C21_Called == probe.fn = "getAllRates"

C21_Succeeded(i) == probe.input[i].state = "fulfilled"

\* C21: getAllRates() fails only if every registered carrier's getRates
\* fails, or no carrier is registered; when at least one carrier's
\* getRates succeeds, getAllRates succeeds.
C21_FailsOnlyIfAllFail ==
    C21_Called =>
        (probe.output.state = "rejected"
            <=> \A i \in 1..Len(probe.input) : ~C21_Succeeded(i))

\* ------------------------------------------------------------------- C22
\* The number of times q is among the quotes the successful carriers
\* returned, and among the quotes of a list.
C22_Offered(q) ==
    Cardinality(UNION { { <<i, j>> : j \in { k \in 1..Len(probe.input[i].quotes) :
                                               probe.input[i].quotes[k] = q } } :
                        i \in { c \in 1..Len(probe.input) :
                                  probe.input[c].state = "fulfilled" } })

C22_Returned(q) ==
    Cardinality({ k \in 1..Len(probe.output.quotes) :
                     probe.output.quotes[k] = q })

\* C22: when getAllRates succeeds, the quotes it returns are exactly the
\* quotes of the carriers whose getRates succeeded, each as often as it was
\* returned, in ascending order of totalCharge.
C22_UnionSortedByCharge ==
    (probe.fn = "getAllRates" /\ probe.output.state = "fulfilled") =>
        LET quotes == probe.output.quotes IN
        /\ \A q \in ServiceQuotes : C22_Returned(q) = C22_Offered(q)
        /\ \A k \in 1..Len(quotes) : quotes[k] \in ServiceQuotes
        /\ \A k \in 1..Len(quotes) : \A l \in 1..Len(quotes) :
              k < l => CompareMagnitude(quotes[k].totalCharge,
                                        quotes[l].totalCharge) <= 0

\* One carrier failed and the other returned two quotes, the dearer one
\* first: getAllRates returned both, the cheaper one first.
C22_Witness ==
    /\ probe.fn = "getAllRates"
    /\ Len(probe.input) = 2
    /\ probe.input[1].state = "rejected"
    /\ probe.input[2].state = "fulfilled"
    /\ Len(probe.input[2].quotes) = 2
    /\ probe.output.state = "fulfilled"
    /\ probe.output.quotes # probe.input[2].quotes
    /\ Len(probe.output.quotes) = 2

\* ------------------------------------------------------------------- C23
\* A step in which the token endpoint answers fetch f with a 2xx body that
\* has a token and a positive number of seconds.
C23_Answered(f) ==
    /\ Pending(f)
    /\ f \in DOMAIN fetches'
    /\ Is2xx(fetches'[f].answer)
    /\ WellFormedTokenBody(fetches'[f].answer.data)

\* The fetch succeeds with the token of the body, which is cached to expire
\* expires_in seconds after now, less five minutes; with expires_in of 300
\* or less the cache has already expired.
C23_ExpiryIsShortened ==
    \A f \in FetchIds :
        C23_Answered(f) =>
            LET data == fetches'[f].answer.data IN
            /\ fetches'[f].outcome = Fulfilled(data.access_token)
            /\ cachedToken' = Cached(data.access_token,
                                     Num(now + data.expires_in.n * 1000
                                             - 5 * 60 * 1000))
            /\ data.expires_in.n <= 300 =>
                  ~(cachedToken'.present /\ now' < cachedToken'.expiresAt.n)

\* getToken() called on a cached token whose expiry has come is not served
\* by the cache and does not fail: it awaits a fetch, a new one unless one
\* is in flight.
C23_ExpiredIsRefetched ==
    (/\ GetTokenCalled
     /\ cachedToken.present
     /\ IsNumber(cachedToken.expiresAt)
     /\ cachedToken.expiresAt.n <= now)
        => /\ Issuing.pc = "awaitToken"
           /\ lastDone' = NoCall
           /\ Issuing.refresh \in FetchIds'
           /\ fetches'[Issuing.refresh].outcome.state = "none"
           /\ tokenRefreshPromise = 0 =>
                 /\ fetchCount' = fetchCount + 1
                 /\ Issuing.refresh = fetchCount'

\* C23: a fetched token's effective expiry is the fetch-completion time
\* plus expires_in seconds minus five minutes.  When expires_in is 300 s or
\* less the fetch still succeeds and returns the token, but that token is
\* never served from the cache: the next getToken() performs a fresh fetch,
\* without an error.
C23_ShortLivedTokenIsNeverCached ==
    [][C23_ExpiryIsShortened /\ C23_ExpiredIsRefetched]_vars

\* A token with expires_in = 300 was fetched and returned, and the next
\* getToken() started the second fetch.
C23_Witness ==
    /\ fetchCount = 2
    /\ cachedToken = Cached(FreshToken(1), Num(now))
    /\ tokenRefreshPromise = 2
    /\ Pending(2)
    /\ \E c \in Calls : calls[c].op = "getToken" /\ calls[c].refresh = 2

\* ------------------------------------------------------------------- C24
\* A step in which invalidateToken() is called.
C24_Invalidating == Issued /\ lastDone'.op = "invalidateToken"

\* invalidateToken() empties the cache and touches nothing of a refresh:
\* the marker, the fetches and the calls awaiting them stay as they were.
C24_OnlyTheCacheIsCleared ==
    C24_Invalidating =>
        /\ cachedToken' = NoToken
        /\ tokenRefreshPromise' = tokenRefreshPromise
        /\ fetches' = fetches
        /\ calls' = calls

\* A getToken() that awaited a refresh completes with what that refresh
\* settled to, whatever was invalidated in between.
C24_AwaitersGetTheResult ==
    (~Issued /\ lastDone'.op = "getToken") =>
        /\ lastDone'.refresh \in FetchIds
        /\ Settled(lastDone'.refresh)
        /\ lastDone'.tok = fetches[lastDone'.refresh].outcome
        /\ lastDone'.result = TokenResult(fetches[lastDone'.refresh].outcome)

\* C24: invalidateToken() clears the cached token unconditionally and does
\* not cancel or detach a refresh in flight: the in-flight marker stays
\* set, the refresh completes, and every getToken() awaiting it receives
\* its result.
C24_InvalidateLeavesRefreshAlone ==
    [][C24_OnlyTheCacheIsCleared /\ C24_AwaitersGetTheResult]_vars

\* invalidateToken() was called while the first fetch was in flight, and
\* the getToken() that awaited the fetch has received its token.
C24_Witness ==
    /\ invalidated = "busy"
    /\ fetchCount = 1
    /\ lastDone.op = "getToken"
    /\ lastDone.refresh = 1
    /\ lastDone.result = TokenResult(Fulfilled(FreshToken(1)))
    /\ cachedToken.present

\* ------------------------------------------------------------------- C25
\* The calls whose POST to the rating endpoint is unanswered.
C25_Posting == { c \in Calls : calls[c].pc = "post" }

\* A POST is in flight only for a getRates whose getToken() returned, and
\* its bearer credential is the value getToken() returned to that call; a
\* call still awaiting its token has sent nothing.
C25_PostFollowsToken ==
    \A c \in Calls :
        IF calls[c].pc = "post"
        THEN /\ calls[c].op = "getRates"
             /\ calls[c].posted
             /\ calls[c].tok.state = "fulfilled"
             /\ calls[c].bearer = calls[c].tok.token
        ELSE ~calls[c].posted

\* The answer to a POST, whatever it is, ends the call: nothing is sent a
\* second time.  A getRates that completes without having posted was
\* stopped by validation or by its getToken().
C25_AnswerEndsTheCall ==
    /\ \A c \in C25_Posting :
          \/ /\ c <= Len(calls') /\ calls'[c] = calls[c]
          \/ /\ c > 1 /\ calls'[c - 1] = calls[c]
          \/ /\ lastDone'.pc = "done"
             /\ lastDone'.posted
             /\ lastDone'.bearer = calls[c].bearer
             /\ lastDone'.tok = calls[c].tok
             /\ Cardinality({ d \in 1..Len(calls') : calls'[d].pc = "post" })
                   = Cardinality(C25_Posting) - 1
    /\ (lastDone'.op = "getRates" /\ ~lastDone'.posted)
          => lastDone'.tok.state # "fulfilled"

C26_Case == probe.fn = "mapRateRequestToUPS"

\* The indicator is on the mapped address exactly when the address is
\* residential.
C26_Indicated(address, mapped) ==
    (mapped.ResidentialAddressIndicator # Undef)
        <=> (address.residential = Bool(TRUE))

\* C26: the wire request has one package entry for every package of the
\* request, in the request's order; Shipper.ShipperNumber is the account
\* number; Service is present iff a service level was requested; the
\* residential indicator is on an address iff that address's residential
\* flag is true; a package has a declared-value block iff a declared value
\* was given for it.
C26_WireRequestFollowsRequest ==
    C26_Case =>
        LET request == probe.input.request
            wire == probe.output
        IN  /\ Len(wire.Package) = Len(request.packages)
            /\ \A i \in 1..Len(request.packages) :
                  /\ DecimalValue(wire.Package[i].Weight.s)
                        = request.packages[i].weight.value.n
                  /\ (wire.Package[i].DeclaredValue # Undef)
                        <=> ~IsUndefined(request.packages[i].value)
            /\ wire.ShipperNumber = probe.input.accountNumber
            /\ wire.Service <=> ~IsUndefined(request.serviceLevel)
            /\ C26_Indicated(request.origin, wire.Shipper)
            /\ C26_Indicated(request.origin, wire.ShipFrom)
            /\ C26_Indicated(request.destination, wire.ShipTo)

\* Two packages, the second with a declared value, sent from a residential
\* address to one that is not, with a service level.
C26_Witness ==
    /\ C26_Case
    /\ Len(probe.input.request.packages) = 2
    /\ probe.input.request.packages[1] = Parcel
    /\ probe.output.Package[2].DeclaredValue = Str(<<"1", "0", "0">>)
    /\ probe.output.Package[1].DeclaredValue = Undef
    /\ probe.output.Shipper.ResidentialAddressIndicator = Str(<<"1">>)
    /\ probe.output.ShipTo.ResidentialAddressIndicator = Undef
    /\ probe.output.Service

\* ------------------------------------------------------------------- C27
\* C27: when the getToken() of a getRates fails, the error that reaches the
\* caller of getRates is the AuthenticationError that getToken() threw, not
\* an error of another kind.
C27_TokenFailureReachesCaller ==
    (lastDone.op = "getRates" /\ lastDone.tok.state = "rejected")
        => /\ lastDone.tok.error = AuthenticationError
           /\ lastDone.result = ErrorResult(lastDone.tok.error)

\* ------------------------------------------------------------------- C28
\* A step in which the rating endpoint answers the POST of a getRates with
\* 401 or 403.
C28_AuthFailure ==
    /\ ~Issued
    /\ lastDone'.op = "getRates"
    /\ lastDone'.posted
    /\ lastDone'.status \in {401, 403}

\* The cache holds a token other than the one the failing request carried.
C28_NewerTokenCached ==
    /\ cachedToken.present
    /\ cachedToken.token # lastDone'.bearer

C28_NewerTokenSurvives ==
    (C28_AuthFailure /\ C28_NewerTokenCached) => cachedToken' = cachedToken

\* C28 as stated: a 401/403 answer to a rating request sent with token A
\* never discards a different, newer token B cached after A.
C28_Original == [][C28_NewerTokenSurvives]_vars

C28_CacheIsEmptied ==
    C28_AuthFailure =>
        /\ cachedToken' = NoToken
        /\ lastDone'.result = ErrorResult(AuthenticationError)
        /\ tokenRefreshPromise' = tokenRefreshPromise
        /\ fetches' = fetches

\* C28: a 401/403 answer to a rating request empties the token cache
\* whatever token it holds, the token the failing request carried or a
\* newer one cached since; the refresh marker and the fetches in flight
\* are left as they were.
C28_AuthFailureEmptiesTheCache == [][C28_CacheIsEmptied]_vars

\* Two getRates and nothing else: the first posted with token 1, which had
\* expired when the second asked, so the second fetched token 2 and posted
\* with it; the first POST was then answered 401 and the cache is empty.
C28_Witness ==
    /\ callCount = 2
    /\ fetchCount = 2
    /\ lastDone.op = "getRates"
    /\ lastDone.status = 401
    /\ lastDone.bearer = FreshToken(1)
    /\ \E c \in Calls : /\ calls[c].pc = "post"
                        /\ calls[c].bearer = FreshToken(2)
    /\ cachedToken = NoToken

\* ------------------------------------------------------------------- C29
\* A step in which fetch f succeeds: the token endpoint answers it with a
\* token and its lifetime, and both are cached.
C29_FetchSucceeds(f) ==
    /\ C23_Answered(f)
    /\ cachedToken' =
          Cached(fetches'[f].answer.data.access_token,
                 Num(now + fetches'[f].answer.data.expires_in.n * 1000
                         - 5 * 60 * 1000))

\* A step in which invalidateToken() runs: called by a caller, or by
\* transformError on a 401/403 of the rating endpoint.
C29_Invalidated ==
    /\ C24_Invalidating \/ C28_AuthFailure
    /\ cachedToken' = NoToken

C29_CacheChangesOnlyBy ==
    cachedToken' # cachedToken =>
        \/ \E f \in FetchIds : C29_FetchSucceeds(f)
        \/ C29_Invalidated

\* C29: the cached token changes only through a successful token fetch,
\* which replaces it with the new token and expiry, or through
\* invalidateToken, which clears it; a failed token fetch, a getToken()
\* served by the cache, a failed healthCheck() and a getRates failure other
\* than 401/403 leave it exactly as it was.
C29_CacheFrame == [][C29_CacheChangesOnlyBy]_vars

\* ------------------------------------------------------------------- C30
\* The quotes a successful getRates returns: those of a whole response, and
\* the quote of one rated shipment that passed the response validator.
C30_Quotes ==
    IF probe.fn = "getRates" /\ probe.output.result.state = "fulfilled"
    THEN { probe.output.result.quotes[i] :
              i \in 1..Len(probe.output.result.quotes) }
    ELSE IF /\ probe.fn = "mapUPSRatedShipmentToQuote"
            /\ UPSRatedShipmentSchemaAccepts(probe.input)
            /\ probe.output.ok
    THEN {probe.output.value}
    ELSE {}

\* RateQuoteSchema, the fields the mapper computes.
C30_RateQuote(q) ==
    /\ q.serviceLevel \in ServiceLevels
    /\ ~q.totalCharge.nan
    /\ ~(q.totalCharge.neg /\ (q.totalCharge.int # 0 \/ q.totalCharge.frac # <<>>))
    /\ IsString(q.currency) /\ Len(q.currency.s) = 3
    /\ q.transitDays # Undef =>
          /\ IsNumber(q.transitDays)
          /\ q.transitDays.n \in Nat

\* C30: every quote returned by a successful getRates satisfies the
\* RateQuote invariants: serviceLevel is a member of the service-level
\* enum, totalCharge is a non-negative number, currency has exactly 3
\* characters, and transitDays, when present, is a non-negative integer.
C30_QuotesSatisfyRateQuote == \A q \in C30_Quotes : C30_RateQuote(q)

\* A validated rated shipment with a guaranteed count of days became a
\* quote that has transitDays.
C30_Witness ==
    /\ probe.fn = "mapUPSRatedShipmentToQuote"
    /\ UPSRatedShipmentSchemaAccepts(probe.input)
    /\ probe.input.GuaranteedDelivery.present
    /\ probe.output.ok
    /\ probe.output.value.transitDays = Num(7)
    /\ probe.output.value.serviceLevel = "GROUND"

====
